---- MODULE Spec2Model ----
(***************************************************************************)
(* A model of apfsprogs: the checker apfsck (object checksums, B-tree      *)
(* nodes, walks and queries, the object map, the allocation bitmaps, the   *)
(* inode and data stream audits), the object map lookup of apfs-label and  *)
(* the layout computed by mkapfs.                                          *)
(*                                                                         *)
(* Every component has its own specification (SpecNode, SpecWalk, ...)     *)
(* over the same variables; a component's Init leaves the variables of     *)
(* the other components at their idle values.                              *)
(*                                                                         *)
(* TLC integers are 32 bits wide.  A u32 of the source is held by the int  *)
(* with the same bit pattern (0xFFFFFFFF is -1), which is also what the    *)
(* conversions between u32 and int of the source do.                       *)
(***************************************************************************)
EXTENDS Integers, Sequences, FiniteSets, TLC

VARIABLES
    disk,       \* the image: block number -> raw block
    rpt,        \* the line printed by report() before exit(1); "" while running
    pc,         \* position of the run
    node,       \* struct node under inspection (SpecNode)
    loc,        \* last location returned by node_locate_key/data (SpecNode)
    stack,      \* frames of the recursion of parse_subtree: <<node, i>>
    last_key,   \* *last_key of parse_subtree
    omap_root,  \* omap_root of parse_subtree (NULL for an omap tree)
    stats,      \* the key and node counts of the walk (stats.h)
    lookup,     \* the last object map lookup: what was asked and what came back
    query,      \* the struct query that the calls of btree_query() work on
    s_main_bitmap,  \* sb->s_main_bitmap: the numbers of the bits that are 1
    s_tier2_bitmap, \* sb->s_tier2_bitmap
    s_ip_bitmap,    \* sb->s_ip_bitmap
    sm,         \* the sizes of the devices and of the internal pool
    sm_dev,     \* sm->sm_dev[] as check_spaceman() read it from disk
    call,       \* the last call that marked a range as used
    param,      \* mkapfs: the parameters of the run
    options,    \* apfsck: the options of the command line, a mask of OPT_*
    out,        \* apfsck: the lines printed on the standard output
    status,     \* apfsck: the exit status; Running before the exit
    occurred,   \* apfsck: the conditions met so far, in their order
    sb,         \* apfsck: the struct super_block of parse_filesystem()
    cp_info,    \* apfsck: struct checkpoint_info and the loop over the ring
    mapped,     \* the blocks a reader that reports a bad checksum has mapped
    scanned,    \* the blocks read_latest_super() has mapped
    used,       \* the blocks a reader has handed to its caller
    cat_last,   \* the key of the last record of the catalog handed out
    inode_table,    \* vsb->v_inode_table: inode number -> struct inode
    dentries,   \* the dentry records handed out so far
    dstream,    \* the struct dstream of the one data stream of the volume
    extent_table,   \* vsb->v_extent_table: block number -> struct extent
    tally,      \* what the records handed out so far add up to
    vsb         \* apfsck: the tables of the struct volume_superblock

nodeVars == <<node, loc>>
walkVars == <<stack, last_key, omap_root, stats>>
omapVars == <<lookup, query>>
bmapVars ==
    <<s_main_bitmap, s_tier2_bitmap, s_ip_bitmap, sm, sm_dev, call, param>>
csumVars == <<mapped, scanned, used>>
auditVars ==
    <<cat_last, inode_table, dentries, dstream, extent_table, tally,
      vsb>>
runVars == <<options, out, status, occurred, sb, cp_info>>
restVars == <<omapVars, bmapVars, csumVars, auditVars, runVars>>
otherThanOmap ==
    <<nodeVars, walkVars, bmapVars, csumVars, auditVars, runVars>>
otherThanBmap ==
    <<nodeVars, walkVars, omapVars, csumVars, auditVars, runVars>>
otherThanCsum ==
    <<nodeVars, walkVars, omapVars, bmapVars, auditVars, runVars>>
otherThanRun ==
    <<nodeVars, walkVars, omapVars, bmapVars, csumVars, auditVars>>
otherThanAudit ==
    <<nodeVars, walkVars, omapVars, bmapVars, csumVars, runVars>>
vars == <<disk, rpt, pc, nodeVars, walkVars, restVars>>

NULL == 0

INT_MAX == 1073741823 * 2 + 1

\* sb->s_blocksize: parse_main_super() refuses every other block size
s_blocksize == 4096

DIV_ROUND_UP(n, d) == (n + d - 1) \div d

\* a < b for two u32 held as bit patterns
U32Less(a, b) == IF (a < 0) = (b < 0) THEN a < b ELSE b < 0

\* report(): prints one line and exits with status 1
Report(msg) == [rpt |-> msg]

Reported(r) == r.rpt # ""

\* report() does not return: what follows a call that reported is skipped
\* the outcome r is computed once, as the value x
Then(r, F(_)) ==
    CHOOSE y \in {IF Reported(x) THEN x ELSE F(x) : x \in {r}} : TRUE

\* a local variable, assigned once
Let(v, F(_)) == CHOOSE y \in {F(x) : x \in {v}} : TRUE

(***************************************************************************)
(* Object checksums (object.c).  The words of a block are kept CsumBits    *)
(* wide so that the sums fit the integers of TLC; the algorithm is that of *)
(* fletcher64() with 0xFFFFFFFF replaced by 2^CsumBits - 1.                *)
(***************************************************************************)
CsumBits == 4

CsumMax == 2 ^ CsumBits - 1

RECURSIVE fletcher_sums(_, _, _, _)
fletcher_sums(words, i, sum1, sum2) ==
    IF i > Len(words) THEN <<sum1, sum2>>
    ELSE fletcher_sums(words, i + 1, sum1 + words[i], sum2 + (sum1 + words[i]))

fletcher64(words) ==
    LET s == fletcher_sums(words, 1, 0, 0)
        sum1 == s[1]
        sum2 == s[2]
        c1 == CsumMax - ((sum1 + sum2) % CsumMax)
        c2 == CsumMax - ((sum1 + c1) % CsumMax)
    IN  c2 * (2 ^ CsumBits) + c1

\* the words after the first 8 bytes of the block are raw.body
obj_verify_csum_always(raw) == TRUE

obj_verify_csum(raw) == raw.o_cksum = fletcher64(raw.body)

(***************************************************************************)
(* Keys (key.c, key.h).  A name is a sequence of code points 1..3 ('A',    *)
(* 'a', 'b'); NoName stands for the NULL pointer.                          *)
(***************************************************************************)
APFS_TYPE_INODE == 3
APFS_TYPE_XATTR == 4
APFS_TYPE_FILE_EXTENT == 8
APFS_TYPE_DIR_REC == 9

NoName == <<0>>

\* case folding done by normalize_next(): 'A' (1) becomes 'a' (2)
case_fold(c) == IF c = 1 THEN 2 ELSE c

\* the code point normalize_next() returns at position i; 0 at the end
normalize_next(name, i) == IF i > Len(name) THEN 0 ELSE case_fold(name[i])

RECURSIVE filename_cmp_from(_, _, _)
filename_cmp_from(name1, name2, i) ==
    LET uni1 == normalize_next(name1, i)
        uni2 == normalize_next(name2, i)
    IN  IF uni1 # uni2 THEN (IF uni1 < uni2 THEN -1 ELSE 1)
        ELSE IF uni1 = 0 THEN 0
        ELSE filename_cmp_from(name1, name2, i + 1)

filename_cmp(name1, name2) == filename_cmp_from(name1, name2, 1)

RECURSIVE strcmp_from(_, _, _)
strcmp_from(s1, s2, i) ==
    LET c1 == IF i > Len(s1) THEN 0 ELSE s1[i]
        c2 == IF i > Len(s2) THEN 0 ELSE s2[i]
    IN  IF c1 # c2 THEN (IF c1 < c2 THEN -1 ELSE 1)
        ELSE IF c1 = 0 THEN 0
        ELSE strcmp_from(s1, s2, i + 1)

strcmp(s1, s2) == strcmp_from(s1, s2, 1)

keycmp(k1, k2) ==
    IF k1.id # k2.id THEN (IF k1.id < k2.id THEN -1 ELSE 1)
    ELSE IF k1.type # k2.type THEN (IF k1.type < k2.type THEN -1 ELSE 1)
    ELSE IF k1.number # k2.number
         THEN (IF k1.number < k2.number THEN -1 ELSE 1)
    ELSE IF k1.name = NoName THEN 0
    ELSE IF k1.type = APFS_TYPE_XATTR THEN strcmp(k1.name, k2.name)
    ELSE filename_cmp(k1.name, k2.name)

init_omap_key(oid) == [id |-> oid, type |-> 0, number |-> 0, name |-> NoName]

\* sizeof(struct apfs_omap_key)
OMAP_KEY_SIZE == 16

\* sizeof(struct apfs_key_header)
KEY_HEADER_SIZE == 8

\* raw is the key found at the located offset, size the located length
read_omap_key(raw, size) ==
    IF size # OMAP_KEY_SIZE
    THEN Report("Wrong size of key in object map.")
    ELSE [rpt |-> "", key |-> init_omap_key(raw.id)]

\* crc32c() is stood for by a polynomial hash of the folded code points
RECURSIVE crc32c_from(_, _, _)
crc32c_from(hash, name, i) ==
    IF i > Len(name) THEN hash
    ELSE crc32c_from((hash * 31 + case_fold(name[i])) % 4093, name, i + 1)

\* ((hash & 0x3FFFFF) << 10) | (namelen & 0x3FF), the NUL byte is counted
dentry_hash(name) ==
    (crc32c_from(4092, name, 1) % 4194304) * 1024 + ((Len(name) + 1) % 1024)

\* sizeof(struct apfs_drec_hashed_key)
DREC_HASHED_KEY_SIZE == 12

read_dir_rec_key(raw, size) ==
    IF size < DREC_HASHED_KEY_SIZE + 1
    THEN Report("Wrong size for directory record key.")
    ELSE IF raw.number # dentry_hash(raw.name)
    THEN Report("Corrupted dentry hash.")
    ELSE IF Len(raw.name) + 1 # raw.number % 1024
    THEN Report("Wrong name length in dentry key.")
    ELSE IF size # DREC_HASHED_KEY_SIZE + (raw.number % 1024)
    THEN Report("Size of dentry key doesn't match the name length.")
    ELSE [rpt |-> "",
          key |-> [id |-> raw.id, type |-> raw.type,
                   number |-> raw.number, name |-> raw.name]]

read_cat_key(raw, size) ==
    IF size < KEY_HEADER_SIZE
    THEN Report("Key too small in catalog tree.")
    ELSE IF raw.type = APFS_TYPE_DIR_REC
    THEN read_dir_rec_key(raw, size)
    ELSE IF raw.type = APFS_TYPE_XATTR
    THEN [rpt |-> "",
          key |-> [id |-> raw.id, type |-> raw.type, number |-> 0,
                   name |-> raw.name]]
    ELSE IF raw.type = APFS_TYPE_FILE_EXTENT
    THEN [rpt |-> "",
          key |-> [id |-> raw.id, type |-> raw.type,
                   number |-> raw.number, name |-> NoName]]
    ELSE [rpt |-> "",
          key |-> [id |-> raw.id, type |-> raw.type, number |-> 0,
                   name |-> NoName]]

(***************************************************************************)
(* B-tree nodes (btree.c).  A raw node block has the fields of struct      *)
(* apfs_btree_node_phys; toc[i + 1] is entry i of the table of contents    *)
(* together with what the located bytes decode to (key, val), and beyond   *)
(* is what the bytes after the last written entry decode to.               *)
(***************************************************************************)
\* sizeof(struct apfs_btree_node_phys)
BTREE_NODE_PHYS_SIZE == 56

\* sizeof(struct apfs_btree_info)
BTREE_INFO_SIZE == 40

\* sizeof(struct apfs_kvoff)
KVOFF_SIZE == 4

\* sizeof(struct apfs_kvloc)
KVLOC_SIZE == 8

node_is_root(n) == n.flags % 2 = 1

node_is_leaf(n) == (n.flags \div 2) % 2 = 1

node_has_fixed_kv_size(n) == (n.flags \div 4) % 2 = 1

\* the product a * b as an int when it does not overflow
MulFits(a, b) == a <= INT_MAX \div b /\ a >= (0 - INT_MAX) \div b

\* ub is the result the build gives to the comparison when the signed
\* product records * entry_size overflows
node_is_valid(n, ub) ==
    LET records == n.records
        index_size == n.key - BTREE_NODE_PHYS_SIZE
        entry_size == IF node_has_fixed_kv_size(n) THEN KVOFF_SIZE
                      ELSE KVLOC_SIZE
    IN  IF records = 0 THEN FALSE
        ELSE IF n.key > s_blocksize THEN FALSE
        ELSE IF MulFits(records, entry_size)
             THEN records * entry_size <= index_size
             ELSE ub

\* the block is off the image: the mapping cannot be read
BlockMissing(block) == block \notin DOMAIN disk

read_node(block, ub) ==
    IF BlockMissing(block) THEN Report("SIGBUS")
    ELSE
    LET raw == disk[block]
        n == [flags |-> raw.btn_flags,
              records |-> raw.btn_nkeys,
              key |-> BTREE_NODE_PHYS_SIZE + raw.table_off + raw.table_len,
              block_nr |-> block,
              oid |-> raw.o_oid]
    IN  IF ~obj_verify_csum(raw)
        THEN Report("B-tree node: bad checksum in block.")
        ELSE IF ~node_is_valid(n, ub)
        THEN Report("B-tree node: block is not sane.")
        ELSE [rpt |-> "", node |-> n]

\* entry index of the table of contents of the mapped block
TocEntry(n, index) ==
    LET raw == disk[n.block_nr]
    IN  IF index < Len(raw.toc) THEN raw.toc[index + 1] ELSE raw.beyond

node_locate_key(n, index) ==
    IF ~U32Less(index, n.records)
    THEN Report("B-tree node: requested index out-of-bounds.")
    ELSE
    LET entry == TocEntry(n, index)
        len == IF node_has_fixed_kv_size(n) THEN 16 ELSE entry.k_len
        off == n.key + entry.k_off
    IN  IF off + len > s_blocksize
        THEN Report("B-tree: key is out-of-bounds.")
        ELSE [rpt |-> "", len |-> len, off |-> off, key |-> entry.key]

node_locate_data(n, index) ==
    IF ~U32Less(index, n.records)
    THEN Report("B-tree: requested index out-of-bounds.")
    ELSE
    LET entry == TocEntry(n, index)
        len == IF node_has_fixed_kv_size(n)
               THEN (IF node_is_leaf(n) THEN 16 ELSE 8)
               ELSE entry.v_len
        off == IF node_is_root(n)
               THEN s_blocksize - BTREE_INFO_SIZE - entry.v_off
               ELSE s_blocksize - entry.v_off
    IN  IF off < 0 \/ off + len > s_blocksize
        THEN Report("B-tree: value is out-of-bounds.")
        ELSE [rpt |-> "", len |-> len, off |-> off, val |-> entry.val]

(***************************************************************************)
(* Idle values of the variables of each component.                         *)
(***************************************************************************)
NoNode == [block_nr |-> NULL]

NoLoc == [what |-> "none"]

NoKey == [id |-> 0, type |-> 0, number |-> 0, name |-> NoName]

NoQuery == [node |-> NoNode]

(***************************************************************************)
(* B-tree queries (btree.c).  A struct query is a record; its flags are    *)
(* the set of the names of the flags that are set.  The result of a        *)
(* function that returns an error code is [rpt, err, query].               *)
(***************************************************************************)
EAGAIN == 1
ENODATA == 2

\* the depth at which btree_query() gives up
BTREE_MAX_DEPTH == 12

\* sizeof(struct apfs_omap_val)
OMAP_VAL_SIZE == 16

alloc_query(n, parent) ==
    [node |-> n,
     key |-> IF parent # NoQuery THEN parent.key ELSE NoKey,
     flags |-> IF parent # NoQuery
               THEN parent.flags \ {"QUERY_DONE", "QUERY_NEXT"} ELSE {},
     parent |-> parent,
     index |-> n.records,
     depth |-> IF parent # NoQuery THEN parent.depth + 1 ELSE 0,
     key_off |-> 0, key_len |-> 0, off |-> 0, len |-> 0, val |-> 0,
     found |-> NoKey]

\* raw is the key found at query->key_off
key_from_query(q, raw) ==
    Then(IF "QUERY_CAT" \in q.flags THEN read_cat_key(raw, q.key_len)
         ELSE IF "QUERY_OMAP" \in q.flags
         THEN read_omap_key(raw, q.key_len)
         ELSE Report("Bug!"),
         LAMBDA r :
            IF "QUERY_MULTIPLE" \in q.flags
            THEN [rpt |-> "",
                  key |-> [r.key EXCEPT !.number = 0, !.name = NoName]]
            ELSE r)

\* the end of node_query() and of node_next(): locate the data
query_locate_data(q) ==
    Then(node_locate_data(q.node, q.index), LAMBDA d :
        IF d.len = 0
        THEN Report("B-tree: corrupted record value in node.")
        ELSE [rpt |-> "", err |-> 0,
              query |-> [q EXCEPT !.off = d.off, !.len = d.len,
                                  !.val = d.val]])

\* a node_next() for which the first record of a node ends the search
node_next_no_pop(q) ==
    IF "QUERY_DONE" \in q.flags \/ q.index = 0
    THEN [rpt |-> "", err |-> 0 - ENODATA, query |-> q]
    ELSE
    Then(node_locate_key(q.node, q.index - 1), LAMBDA k :
    Let([q EXCEPT !.index = q.index - 1, !.key_off = k.off,
                  !.key_len = k.len], LAMBDA q2 :
    Then(key_from_query(q2, k.key), LAMBDA c :
    Let(keycmp(c.key, q.key), LAMBDA cmp :
        IF cmp > 0 THEN Report("B-tree: records are out of order.")
        ELSE IF cmp # 0 /\ node_is_leaf(q.node) /\ "QUERY_EXACT" \in q.flags
        THEN [rpt |-> "", err |-> 0 - ENODATA,
              query |-> [q2 EXCEPT !.found = k.key]]
        ELSE
        Then(query_locate_data([q2 EXCEPT !.found = k.key]), LAMBDA d :
            IF cmp # 0
            THEN [d EXCEPT !.query.flags = @ \cup {"QUERY_DONE"}]
            ELSE d)))))

node_next(q) ==
    IF "QUERY_DONE" \in q.flags
    THEN [rpt |-> "", err |-> 0 - ENODATA, query |-> q]
    ELSE IF q.index = 0
    THEN [rpt |-> "", err |-> 0 - EAGAIN, query |-> q]
    ELSE
    Then(node_locate_key(q.node, q.index - 1), LAMBDA k :
    Let([q EXCEPT !.index = q.index - 1, !.key_off = k.off,
                  !.key_len = k.len], LAMBDA q2 :
    Then(key_from_query(q2, k.key), LAMBDA c :
    Let(keycmp(c.key, q.key), LAMBDA cmp :
        IF cmp > 0 THEN Report("B-tree: records are out of order.")
        ELSE IF cmp # 0 /\ node_is_leaf(q.node) /\ "QUERY_EXACT" \in q.flags
        THEN [rpt |-> "", err |-> 0 - ENODATA,
              query |-> [q2 EXCEPT !.found = k.key]]
        ELSE
        Then(query_locate_data([q2 EXCEPT !.found = k.key]), LAMBDA d :
            IF cmp # 0
            THEN [d EXCEPT !.query.flags = @ \cup {"QUERY_DONE"}]
            ELSE d)))))

\* one pass of the do-while loop of the bisection of node_query(), entered
\* with the cmp, left and right of the previous pass
RECURSIVE node_query_bisect(_, _, _, _)
node_query_bisect(q, cmp, left, right) ==
    LET right1 == IF cmp > 0 THEN q.index - 1 ELSE right
        left1 == IF cmp > 0 THEN left ELSE q.index
        index == IF cmp > 0 THEN (left1 + right1) \div 2
                 ELSE DIV_ROUND_UP(left1 + right1, 2)
    IN  IF cmp > 0 /\ right1 < left1
        THEN [rpt |-> "", err |-> 0 - ENODATA, query |-> q]
        ELSE
        Then(node_locate_key(q.node, index), LAMBDA k :
        Let([q EXCEPT !.index = index, !.key_off = k.off,
                      !.key_len = k.len, !.found = k.key], LAMBDA q1 :
        Then(key_from_query(q1, k.key), LAMBDA c :
        Let(keycmp(c.key, q.key), LAMBDA cmp1 :
            IF (cmp1 = 0 /\ "QUERY_MULTIPLE" \notin q.flags) \/ left1 = right1
            THEN [rpt |-> "", err |-> 0, query |-> q1, cmp |-> cmp1]
            ELSE node_query_bisect(q1, cmp1, left1, right1)))))

\* a node_query() that does not look at QUERY_EXACT
node_query_inexact(q) ==
    IF "QUERY_NEXT" \in q.flags THEN node_next(q)
    ELSE
    Then(node_query_bisect(q, 1, 0, 0), LAMBDA b :
        IF b.err # 0 THEN b
        ELSE IF b.cmp > 0
        THEN [rpt |-> "", err |-> 0 - ENODATA, query |-> b.query]
        ELSE query_locate_data(
                 IF "QUERY_MULTIPLE" \in q.flags
                 THEN [b.query EXCEPT !.flags =
                           @ \cup (IF b.cmp # 0 THEN {"QUERY_DONE"} ELSE {})
                             \cup {"QUERY_NEXT"}]
                 ELSE b.query))

node_query(q) ==
    IF "QUERY_NEXT" \in q.flags THEN node_next(q)
    ELSE
    Then(node_query_bisect(q, 1, 0, 0), LAMBDA b :
        IF b.err # 0 THEN b
        ELSE IF b.cmp > 0
        THEN [rpt |-> "", err |-> 0 - ENODATA, query |-> b.query]
        ELSE IF b.cmp # 0 /\ node_is_leaf(q.node) /\ "QUERY_EXACT" \in q.flags
        THEN [rpt |-> "", err |-> 0 - ENODATA, query |-> b.query]
        ELSE query_locate_data(
                 IF "QUERY_MULTIPLE" \in q.flags
                 THEN [b.query EXCEPT !.flags =
                           @ \cup (IF b.cmp # 0 THEN {"QUERY_DONE"} ELSE {})
                             \cup {"QUERY_NEXT"}]
                 ELSE b.query))

child_from_query(q) ==
    IF q.len # 8 THEN Report("B-tree: wrong size of nonleaf record value.")
    ELSE [rpt |-> "", val |-> q.val]

bno_from_query(q) ==
    IF q.len # OMAP_VAL_SIZE
    THEN Report("Object map record: wrong size of value.")
    ELSE [rpt |-> "", val |-> q.val.ov_paddr]

\* the end of a pass of btree_query(): go a level deeper, into node n
btree_query_descend(q, n) ==
    IF "QUERY_MULTIPLE" \in q.flags THEN alloc_query(n, q)
    ELSE [q EXCEPT !.node = n, !.index = n.records, !.depth = @ + 1]

RECURSIVE btree_query(_, _, _)
RECURSIVE omap_lookup_block(_, _, _)

\* one pass from the label next_node of btree_query() to the next goto or
\* return; again says that the pass ended with goto next_node.  tbl is
\* sb->s_omap_root.
btree_query_pass(q, tbl, ub) ==
    IF q.depth >= BTREE_MAX_DEPTH THEN Report("B-tree: is too deep.")
    ELSE
    Then(node_query(q), LAMBDA r :
        IF r.err = 0 - EAGAIN
        THEN IF q.parent = NoQuery
             THEN [rpt |-> "", err |-> 0 - ENODATA, query |-> r.query,
                   again |-> FALSE]
             ELSE [rpt |-> "", err |-> 0, query |-> q.parent, again |-> TRUE]
        ELSE IF r.err # 0
        THEN [rpt |-> "", err |-> r.err, query |-> r.query, again |-> FALSE]
        ELSE IF node_is_leaf(r.query.node)
        THEN [rpt |-> "", err |-> 0, query |-> r.query, again |-> FALSE]
        ELSE
        Then(child_from_query(r.query), LAMBDA c :
        Then(IF "QUERY_OMAP" \in q.flags
             THEN [rpt |-> "", val |-> c.val]
             ELSE omap_lookup_block(tbl, c.val, ub), LAMBDA b :
        Then(read_node(b.val, ub), LAMBDA n :
            IF n.node.oid # c.val
            THEN Report("B-tree: wrong object id on block number.")
            ELSE [rpt |-> "", err |-> 0,
                  query |-> btree_query_descend(r.query, n.node),
                  again |-> TRUE]))))

btree_query(q, tbl, ub) ==
    Then(btree_query_pass(q, tbl, ub), LAMBDA p :
        IF p.again THEN btree_query(p.query, tbl, ub) ELSE p)

\* the query omap_lookup_block() starts with
omap_query(tbl, id) ==
    [alloc_query(tbl, NoQuery) EXCEPT
        !.key = init_omap_key(id),
        !.flags = {"QUERY_OMAP", "QUERY_EXACT"}]

omap_lookup_block(tbl, id, ub) ==
    Then(btree_query(omap_query(tbl, id), tbl, ub), LAMBDA r :
        IF r.err # 0 THEN Report("Object map: record missing for id.")
        ELSE Then(bno_from_query(r.query), LAMBDA b :
                 [rpt |-> "", val |-> b.val, query |-> r.query]))

IdleNode == node = NoNode /\ loc = NoLoc

NoStats == [key_count |-> 0, node_count |-> 0]

IdleWalk ==
    stack = <<>> /\ last_key = NoKey /\ omap_root = NoNode /\ stats = NoStats

NoLookup == [tool |-> "none"]

IdleOmap == lookup = NoLookup /\ query = NoQuery

NoDev == [sm_chunk_count |-> 0]

NoCall == [n |-> 0]

NoParam == [main_blkcnt |-> 0]

IdleBmap ==
    /\ s_main_bitmap = {} /\ s_tier2_bitmap = {} /\ s_ip_bitmap = {}
    /\ sm = NoDev /\ sm_dev = NoDev /\ call = NoCall
    /\ param = NoParam

IdleCsum == mapped = {} /\ scanned = {} /\ used = {}

NoDstream == [d_id |-> 0]

NoTally == [references |-> 0]

NoVolume == [v_in_snapshot |-> FALSE]

IdleAudit ==
    /\ cat_last = NoKey /\ inode_table = <<>> /\ dentries = {}
    /\ dstream = NoDstream /\ extent_table = <<>> /\ tally = NoTally
    /\ vsb = NoVolume

Running == -1

NoSuper == [s_xid |-> 0]

NoInfo == [desc_blocks |-> 0]

IdleRun ==
    /\ options = 0 /\ out = <<>> /\ status = Running /\ occurred = <<>>
    /\ sb = NoSuper /\ cp_info = NoInfo

IdleRest == IdleOmap /\ IdleBmap /\ IdleCsum /\ IdleAudit /\ IdleRun

(***************************************************************************)
(* SpecNode: read_node() on one block of any shape, then node_locate_key() *)
(* and node_locate_data() on the node it returned.                         *)
(***************************************************************************)
NodeBlock == 1

\* btn_nkeys: 0x40000000 and 0x20000000 overflow the product with the
\* entry size, -1 is 0xFFFFFFFF
NkeysSamples == {0, 1, 2, 1073741824, 536870912, -1}

FlagSamples == {0, 2, 3, 4, 6, 7}

TableLenSamples == {0, 8, 4040, 4048, 65535}

KeyOffSamples == {0, 4000, 65535}

ValOffSamples == {0, 16, 4056, 4096, 65535}

LenSamples == {0, 16}

IndexSamples == {0, 1, 2}

NodeBody == <<1, 2>>

RawKeySample == [id |-> 1, type |-> 0, number |-> 1, name |-> NoName]

EntrySamples ==
    [k_off : KeyOffSamples, k_len : LenSamples, v_off : ValOffSamples,
     v_len : LenSamples, key : {RawKeySample}, val : {1}]

BeyondEntry ==
    [k_off |-> 0, k_len |-> 0, v_off |-> 0, v_len |-> 0,
     key |-> RawKeySample, val |-> 0]

RawNodeSamples ==
    [o_cksum : {fletcher64(NodeBody), fletcher64(NodeBody) + 1},
     body : {NodeBody}, o_oid : {NodeBlock},
     btn_flags : FlagSamples, btn_nkeys : NkeysSamples,
     table_off : {0}, table_len : TableLenSamples,
     toc : {<<e>> : e \in EntrySamples}, beyond : {BeyondEntry}]

InitNode ==
    /\ disk \in [{NodeBlock} -> RawNodeSamples]
    /\ rpt = ""
    /\ pc = "node_start"
    /\ IdleNode /\ IdleWalk /\ IdleRest

NodeRead ==
    /\ pc = "node_start"
    /\ \E ub \in BOOLEAN :
         LET r == read_node(NodeBlock, ub)
         IN  IF Reported(r)
             THEN /\ rpt' = r.rpt
                  /\ pc' = "exit"
                  /\ UNCHANGED node
             ELSE /\ node' = r.node
                  /\ pc' = "node_read"
                  /\ UNCHANGED rpt
    /\ UNCHANGED <<disk, loc, walkVars, restVars>>

NodeLocateKey ==
    /\ pc = "node_read"
    /\ \E index \in IndexSamples :
         LET r == node_locate_key(node, index)
         IN  IF Reported(r)
             THEN /\ rpt' = r.rpt
                  /\ pc' = "exit"
                  /\ UNCHANGED loc
             ELSE /\ loc' = [what |-> "key", index |-> index,
                             off |-> r.off, len |-> r.len]
                  /\ UNCHANGED <<rpt, pc>>
    /\ UNCHANGED <<disk, node, walkVars, restVars>>

NodeLocateData ==
    /\ pc = "node_read"
    /\ \E index \in IndexSamples :
         LET r == node_locate_data(node, index)
         IN  IF Reported(r)
             THEN /\ rpt' = r.rpt
                  /\ pc' = "exit"
                  /\ UNCHANGED loc
             ELSE /\ loc' = [what |-> "data", index |-> index,
                             off |-> r.off, len |-> r.len]
                  /\ UNCHANGED <<rpt, pc>>
    /\ UNCHANGED <<disk, node, walkVars, restVars>>

NextNode == NodeRead \/ NodeLocateKey \/ NodeLocateData

SpecNode == InitNode /\ [][NextNode]_vars

\* the size of a toc entry of the node
EntrySize(n) == IF node_has_fixed_kv_size(n) THEN KVOFF_SIZE ELSE KVLOC_SIZE

(***************************************************************************)
(* SpecWalk: parse_omap_btree() and parse_cat_btree() walk a tree of       *)
(* TreeBlocks nodes of any shape with parse_subtree().  The recursion of   *)
(* parse_subtree() is the stack of frames [node, i]; the model stops a     *)
(* recursion that is MaxWalkDepth frames deep.                             *)
(***************************************************************************)
MaxWalkDepth == 13

MaxRecords == 2

TreeBlockCount == 3

CatBlockCount == 2

TreeBlocks == 1..TreeBlockCount

RootBlock == 1

\* the block of the struct apfs_omap_phys and of the root of the omap of a
\* catalog
OmapPhysBlock == TreeBlockCount + 1

CatOmapRootBlock == TreeBlockCount + 2

\* the object id of the catalog node in block b
CatOid(b) == 10 + b

KeyIds == 1..2

\* keys of a catalog: an inode and two dentries whose names differ in case
CatKeySamples ==
    {[id |-> 1, type |-> APFS_TYPE_INODE, number |-> 0, name |-> NoName],
     [id |-> 1, type |-> APFS_TYPE_DIR_REC, number |-> dentry_hash(<<2>>),
      name |-> <<2>>],
     [id |-> 1, type |-> APFS_TYPE_DIR_REC, number |-> dentry_hash(<<1>>),
      name |-> <<1>>]}

\* the size of a raw catalog key
CatKeySize(k) ==
    IF k.type = APFS_TYPE_DIR_REC THEN DREC_HASHED_KEY_SIZE + Len(k.name) + 1
    ELSE KEY_HEADER_SIZE

MkNode(b, oid, flags, toc) ==
    [o_cksum |-> fletcher64(NodeBody), body |-> NodeBody, o_oid |-> oid,
     btn_flags |-> flags, btn_nkeys |-> Len(toc),
     table_off |-> 0, table_len |-> 64, toc |-> toc, beyond |-> BeyondEntry]

FlagsOf(b, leaf, fixed) ==
    (IF b = RootBlock THEN 1 ELSE 0) + (IF leaf THEN 2 ELSE 0)
    + (IF fixed THEN 4 ELSE 0)

\* the most records of the node in block b: only a leaf and the root have
\* more than one
RecordsOf(b, leaf) == IF leaf \/ b = RootBlock THEN MaxRecords ELSE 1

\* the nodes of an object map that block b can hold
OmapNodes(b, children) ==
    UNION {
      UNION {
        { MkNode(b, b, FlagsOf(b, leaf, TRUE),
                 [i \in 1..n |->
                    [k_off |-> 16 * (i - 1), k_len |-> 16,
                     v_off |-> 16 * i, v_len |-> 16,
                     key |-> [id |-> ids[i], xid |-> 1],
                     val |-> IF leaf THEN [ov_paddr |-> ids[i]]
                             ELSE vals[i]]])
          : ids \in [1..n -> KeyIds],
            vals \in [1..n -> IF leaf THEN {0} ELSE children] }
        : n \in 1..RecordsOf(b, leaf) }
      : leaf \in BOOLEAN }

\* the nodes of a catalog that block b can hold
CatNodes(b, children) ==
    UNION {
      UNION {
        { MkNode(b, CatOid(b), FlagsOf(b, leaf, FALSE),
                 [i \in 1..n |->
                    [k_off |-> 32 * (i - 1), k_len |-> CatKeySize(keys[i]),
                     v_off |-> 16 * i, v_len |-> IF leaf THEN 16 ELSE 8,
                     key |-> keys[i],
                     val |-> vals[i]]])
          : keys \in [1..n -> CatKeySamples],
            vals \in [1..n -> IF leaf THEN {0} ELSE children] }
        : n \in 1..RecordsOf(b, leaf) }
      : leaf \in BOOLEAN }

OmapPhys(tree_oid) ==
    [o_cksum |-> fletcher64(NodeBody), body |-> NodeBody,
     o_oid |-> OmapPhysBlock, om_tree_oid |-> tree_oid]

\* the omap of the catalog: one root leaf that maps CatOid(b) to b
CatOmapRoot ==
    [o_cksum |-> fletcher64(NodeBody), body |-> NodeBody,
     o_oid |-> CatOmapRootBlock, btn_flags |-> 7,
     btn_nkeys |-> CatBlockCount, table_off |-> 0, table_len |-> 64,
     toc |-> [i \in 1..CatBlockCount |->
                [k_off |-> 16 * (i - 1), k_len |-> 16,
                 v_off |-> 16 * i, v_len |-> 16,
                 key |-> [id |-> CatOid(i), xid |-> 1],
                 val |-> [ov_paddr |-> i]]],
     beyond |-> BeyondEntry]

\* the object maps that fill the blocks 1..n
RECURSIVE OmapTrees(_)
OmapTrees(n) ==
    IF n = 0 THEN {<<>>}
    ELSE {Append(t, nd) : t \in OmapTrees(n - 1),
                          nd \in OmapNodes(n, TreeBlocks)}

\* the catalogs that fill the blocks 1..n
RECURSIVE CatTrees(_)
CatTrees(n) ==
    IF n = 0 THEN {<<>>}
    ELSE {Append(t, nd) : t \in CatTrees(n - 1),
                          nd \in CatNodes(n, {CatOid(c) : c \in 1..CatBlockCount})}

\* an image that holds an object map of n nodes
OmapImages(n) ==
    { Append(t, OmapPhys(RootBlock)) : t \in OmapTrees(n) }

\* an image that holds a catalog of n nodes and its omap
CatImages(n) ==
    { [b \in (1..n) \cup {CatOmapRootBlock} |->
          IF b = CatOmapRootBlock THEN CatOmapRoot ELSE t[b]]
      : t \in CatTrees(n) }

\* the struct node of the omap root of the catalog of the image, as
\* parse_omap_btree() returned it
CatOmapRootNode ==
    [flags |-> CatOmapRoot.btn_flags, records |-> CatOmapRoot.btn_nkeys,
     key |-> BTREE_NODE_PHYS_SIZE + CatOmapRoot.table_off
             + CatOmapRoot.table_len,
     block_nr |-> CatOmapRootBlock, oid |-> CatOmapRoot.o_oid]

InitWalk ==
    /\ \/ disk \in OmapImages(TreeBlockCount) /\ omap_root = NoNode
       \/ disk \in CatImages(CatBlockCount) /\ omap_root = CatOmapRootNode
    /\ rpt = ""
    /\ pc = "walk_start"
    /\ stack = <<>> /\ last_key = NoKey /\ stats = NoStats
    /\ IdleNode /\ IdleRest

\* the entry of parse_subtree(): count the node and its keys
CountNode(st, n) ==
    [key_count |-> st.key_count + (IF node_is_leaf(n) THEN n.records ELSE 0),
     node_count |-> st.node_count + 1]

\* the head of parse_omap_btree(): the struct apfs_omap_phys in block oid
\* says where the root of the tree is
read_omap_phys(oid) ==
    IF ~obj_verify_csum(disk[oid])
    THEN Report("Object map: bad checksum.")
    ELSE IF oid # disk[oid].o_oid
    THEN Report("Object map: wrong object id.")
    ELSE [rpt |-> "", val |-> disk[oid].om_tree_oid]

\* parse_omap_btree() and parse_cat_btree() up to the call of parse_subtree()
WalkStart ==
    /\ pc = "walk_start"
    /\ \E ub \in BOOLEAN :
       \E r \in {Then(IF omap_root = NoNode
                      THEN read_omap_phys(OmapPhysBlock)
                      ELSE omap_lookup_block(omap_root, CatOid(RootBlock), ub),
                      LAMBDA b : read_node(b.val, ub))} :
             IF Reported(r)
             THEN /\ rpt' = r.rpt
                  /\ pc' = "exit"
                  /\ UNCHANGED <<stack, stats>>
             ELSE /\ stack' = <<[node |-> r.node, i |-> 0]>>
                  /\ stats' = CountNode(stats, r.node)
                  /\ pc' = "walking"
                  /\ UNCHANGED rpt
    /\ UNCHANGED <<disk, last_key, omap_root, nodeVars, restVars>>

\* the body of the loop of parse_subtree() for record i of node n, up to the
\* recursive call: the new *last_key and, in a nonleaf node, the child read
parse_record(n, i, last, tbl, ub) ==
    Then(node_locate_key(n, i), LAMBDA k :
    Then(IF tbl # NoNode THEN read_cat_key(k.key, k.len)
         ELSE read_omap_key(k.key, k.len), LAMBDA c :
    Let(keycmp(last, c.key), LAMBDA cmp :
        IF cmp > 0
        THEN Report("B-tree: keys are out of order.")
        ELSE IF i # 0 /\ node_is_leaf(n) /\ cmp = 0
        THEN Report("B-tree: leaf keys are repeated.")
        ELSE
        Then(node_locate_data(n, i), LAMBDA d :
            IF node_is_leaf(n)
            THEN [rpt |-> "", key |-> c.key, leaf |-> TRUE, child |-> NoNode]
            ELSE IF d.len # 8
            THEN Report("B-tree: wrong size of nonleaf record value.")
            ELSE
            Then(IF tbl # NoNode THEN omap_lookup_block(tbl, d.val, ub)
                 ELSE [rpt |-> "", val |-> d.val], LAMBDA b :
            Then(read_node(b.val, ub), LAMBDA ch :
                IF d.val # ch.node.oid
                THEN Report("B-tree node: wrong object id.")
                ELSE [rpt |-> "", key |-> c.key, leaf |-> FALSE,
                      child |-> ch.node]))))))

Top == stack[Len(stack)]

\* one record of the node on top of the recursion; a nonleaf record calls
\* parse_subtree() on the child
ParseRecord ==
    /\ pc = "walking"
    /\ U32Less(Top.i, Top.node.records)
    /\ Len(stack) < MaxWalkDepth
    /\ \E ub \in BOOLEAN :
       \E r \in {parse_record(Top.node, Top.i, last_key, omap_root, ub)} :
             IF Reported(r)
             THEN /\ rpt' = r.rpt
                  /\ pc' = "exit"
                  /\ UNCHANGED <<stack, last_key, stats>>
             ELSE /\ last_key' = r.key
                  /\ IF r.leaf
                     THEN /\ stack' = [stack EXCEPT ![Len(stack)].i = @ + 1]
                          /\ UNCHANGED stats
                     ELSE /\ stack' = Append(stack, [node |-> r.child, i |-> 0])
                          /\ stats' = CountNode(stats, r.child)
                  /\ UNCHANGED <<rpt, pc>>
    /\ UNCHANGED <<disk, omap_root, nodeVars, restVars>>

\* the loop of the node on top of the recursion is over: parse_subtree()
\* returns to the loop of the parent, or to parse_omap_btree()
ParseReturn ==
    /\ pc = "walking"
    /\ ~U32Less(Top.i, Top.node.records)
    /\ IF Len(stack) = 1
       THEN /\ pc' = "walk_footer"
            /\ UNCHANGED stack
       ELSE /\ stack' = [SubSeq(stack, 1, Len(stack) - 1)
                           EXCEPT ![Len(stack) - 1].i = @ + 1]
            /\ UNCHANGED pc
    /\ UNCHANGED <<disk, rpt, last_key, omap_root, stats, nodeVars, restVars>>

\* what the footer of a root can say about the tree
InfoSamples ==
    [bt_node_size : {s_blocksize}, bt_key_count : 1..(MaxRecords + 1),
     bt_node_count : {1, TreeBlockCount}]

\* the counts that check_btree_footer() compares; the other fields of the
\* footer hold what the checker expects
check_btree_footer(info, st) ==
    IF info.bt_node_size # s_blocksize
    THEN Report("B-tree: nodes with more than one block are not supported.")
    ELSE IF info.bt_key_count # st.key_count
    THEN Report("B-tree: bad key count in info footer.")
    ELSE IF info.bt_node_count # st.node_count
    THEN Report("B-tree: bad node count in info footer.")
    ELSE [rpt |-> ""]

\* the end of parse_omap_btree() and parse_cat_btree(); the footer of the
\* root is read here for the first time, and info is what it holds
WalkFooter ==
    /\ pc = "walk_footer"
    /\ \E info \in InfoSamples :
         LET r == check_btree_footer(info, stats)
         IN  IF Reported(r)
             THEN rpt' = r.rpt /\ pc' = "exit"
             ELSE pc' = "walk_done" /\ UNCHANGED rpt
    /\ UNCHANGED <<disk, walkVars, nodeVars, restVars>>

NextWalk == WalkStart \/ ParseRecord \/ ParseReturn \/ WalkFooter

SpecWalk == InitWalk /\ [][NextWalk]_vars

(***************************************************************************)
(* SpecOmap: one lookup in an object map, by omap_lookup_block() of apfsck *)
(* and by omap_lookup() of apfs-label.  The object map is sorted by        *)
(* (oid, xid); it is one root leaf, or a root with two leaves.             *)
(***************************************************************************)
MaxOid == 2

MaxXid == 3

MaxLeafRecords == 2

APFS_NX_MAX_FILE_SYSTEMS == 100

OmapKeys == [id : 1..MaxOid, xid : 1..MaxXid]

\* the block address the object map gives for the key
PaddrOf(k) == 100 + 10 * k.id + k.xid

omap_keycmp(k1, k2) ==
    IF k1.id # k2.id THEN (IF k1.id < k2.id THEN -1 ELSE 1)
    ELSE IF k1.xid # k2.xid THEN (IF k1.xid < k2.xid THEN -1 ELSE 1)
    ELSE 0

\* the sequences of n keys in ascending order
SortedKeys(n) ==
    {s \in [1..n -> OmapKeys] :
        \A i \in 1..(n - 1) : omap_keycmp(s[i], s[i + 1]) < 0}

\* the node of an object map in block b: a leaf of the keys, or a nonleaf
\* root whose record i has the key keys[i] and the child in block i + 1
LookupNode(b, leaf, keys) ==
    MkNode(b, b, FlagsOf(b, leaf, TRUE),
           [i \in 1..Len(keys) |->
              [k_off |-> 16 * (i - 1), k_len |-> 16,
               v_off |-> 16 * i, v_len |-> 16,
               key |-> keys[i],
               val |-> IF leaf THEN [ov_paddr |-> PaddrOf(keys[i])]
                       ELSE i + 1]])

\* the object maps of one leaf of up to max + 1 records
OneLeafImages(max) ==
    { [b \in {RootBlock, OmapPhysBlock} |->
          IF b = OmapPhysBlock THEN OmapPhys(RootBlock)
          ELSE LookupNode(RootBlock, TRUE, s)]
      : s \in UNION {SortedKeys(n) : n \in 1..(max + 1)} }

\* the object maps of a root over two leaves of up to max records each
TwoLeafImages(max) ==
    UNION {
      { [b \in {1, 2, 3, OmapPhysBlock} |->
            IF b = OmapPhysBlock THEN OmapPhys(RootBlock)
            ELSE IF b = RootBlock
            THEN LookupNode(b, FALSE, <<s[1], s[n1 + 1]>>)
            ELSE IF b = 2 THEN LookupNode(b, TRUE, SubSeq(s, 1, n1))
            ELSE LookupNode(b, TRUE, SubSeq(s, n1 + 1, Len(s)))]
        : s \in UNION {SortedKeys(n1 + n2) : n2 \in 1..max} }
      : n1 \in 1..max }

\* the keys of the records of the object map of the image
LeafKeys ==
    UNION { {disk[b].toc[i].key : i \in 1..Len(disk[b].toc)}
            : b \in {c \in DOMAIN disk \ {OmapPhysBlock} :
                        node_is_leaf([flags |-> disk[c].btn_flags])} }

\* apfs-label: the root of the object map is the number of its block
omap_bno_to_root(omap_bno) ==
    Let(disk[omap_bno].om_tree_oid, LAMBDA root_bno :
        IF ~node_is_leaf([flags |-> disk[root_bno].btn_flags])
        THEN Report("container omap isn't a single node")
        ELSE [rpt |-> "", root |-> root_bno])

omap_node_locate_key(root, index) ==
    IF index >= APFS_NX_MAX_FILE_SYSTEMS
    THEN Report("node index is out of bounds")
    ELSE IF ~node_has_fixed_kv_size([flags |-> disk[root].btn_flags])
    THEN Report("omap root should have fixed length keys/values")
    ELSE
    LET entry == TocEntry([block_nr |-> root], index)
        off == BTREE_NODE_PHYS_SIZE + disk[root].table_off
               + disk[root].table_len + entry.k_off
    IN  IF off + 16 > s_blocksize THEN Report("omap key out of bounds")
        ELSE [rpt |-> "", off |-> off, key |-> entry.key]

omap_node_locate_val(root, index) ==
    IF index >= APFS_NX_MAX_FILE_SYSTEMS
    THEN Report("node index is out of bounds")
    ELSE IF ~node_has_fixed_kv_size([flags |-> disk[root].btn_flags])
    THEN Report("omap root should have fixed length keys/values")
    ELSE
    LET entry == TocEntry([block_nr |-> root], index)
        off == s_blocksize - BTREE_INFO_SIZE - entry.v_off
    IN  IF off < 0 \/ off + 16 > s_blocksize
        THEN Report("omap value out of bounds")
        ELSE [rpt |-> "", off |-> off, val |-> entry.val]

\* one pass of the do-while loop of omap_lookup(), entered with the index,
\* cmp, left and right of the previous pass
RECURSIVE omap_lookup_bisect(_, _, _, _, _, _)
omap_lookup_bisect(root, target, index, cmp, left, right) ==
    LET right1 == IF cmp > 0 THEN index - 1 ELSE right
        left1 == IF cmp > 0 THEN left ELSE index
        index1 == IF cmp > 0 THEN (left1 + right1) \div 2
                  ELSE DIV_ROUND_UP(left1 + right1, 2)
    IN  IF cmp > 0 /\ right1 < left1
        THEN Report("missing omap record for volume")
        ELSE
        Then(omap_node_locate_key(root, index1), LAMBDA k :
        Let(omap_keycmp(k.key, target), LAMBDA cmp1 :
            IF cmp1 = 0 \/ left1 = right1
            THEN [rpt |-> "", index |-> index1, cmp |-> cmp1, key |-> k.key]
            ELSE omap_lookup_bisect(root, target, index1, cmp1, left1,
                                    right1)))

\* the record found is returned with the block address
omap_lookup(root, oid, nx_xid) ==
    IF disk[root].btn_nkeys > APFS_NX_MAX_FILE_SYSTEMS
    THEN Report("too many records in container omap")
    ELSE
    Then(omap_lookup_bisect(root, [id |-> oid, xid |-> nx_xid],
                            disk[root].btn_nkeys, 1, 0, 0), LAMBDA b :
        IF b.cmp > 0 THEN Report("missing omap record for volume")
        ELSE
        Then(omap_node_locate_val(root, b.index), LAMBDA v :
            [rpt |-> "", key |-> b.key, val |-> v.val.ov_paddr]))

InitOmap ==
    /\ disk \in OneLeafImages(MaxLeafRecords)
               \cup TwoLeafImages(MaxLeafRecords)
    /\ rpt = ""
    /\ pc = "omap_start"
    /\ IdleNode /\ IdleWalk /\ IdleRest

\* list_labels() of apfs-label looks up the volume oid at the xid nx_xid of
\* the latest checkpoint
LabelLookup ==
    /\ pc = "omap_start"
    /\ \E oid \in 1..MaxOid, nx_xid \in 1..MaxXid :
       \E r \in {Then(omap_bno_to_root(OmapPhysBlock), LAMBDA t :
                     omap_lookup(t.root, oid, nx_xid))} :
             IF Reported(r)
             THEN /\ rpt' = r.rpt
                  /\ pc' = "exit"
                  /\ UNCHANGED lookup
             ELSE /\ lookup' = [tool |-> "apfs-label", oid |-> oid,
                                xid |-> nx_xid, key |-> r.key, val |-> r.val]
                  /\ pc' = "omap_done"
                  /\ UNCHANGED rpt
    /\ UNCHANGED <<disk, query, otherThanOmap>>

\* apfsck looks up the object oid in the object map of the checkpoint xid
FsckLookup ==
    /\ pc = "omap_start"
    /\ \E oid \in 1..MaxOid, xid \in 1..MaxXid, ub \in BOOLEAN :
       \E r \in {Then(read_node(disk[OmapPhysBlock].om_tree_oid, ub),
                     LAMBDA t : omap_lookup_block(t.node, oid, ub))} :
             IF Reported(r)
             THEN /\ rpt' = r.rpt
                  /\ pc' = "exit"
                  /\ UNCHANGED lookup
             ELSE /\ lookup' = [tool |-> "apfsck", oid |-> oid, xid |-> xid,
                                key |-> r.query.found, val |-> r.val]
                  /\ pc' = "omap_done"
                  /\ UNCHANGED rpt
    /\ UNCHANGED <<disk, query, otherThanOmap>>

NextOmap == LabelLookup \/ FsckLookup

SpecOmap == InitOmap /\ [][NextOmap]_vars

\* C1: every object-map lookup for (oid, requested_xid) that returns gives a
\* record whose oid is the requested oid, whose xid is <= requested_xid, and
\* whose xid is the greatest among the records of that oid with xid <=
\* requested_xid.
C1_LookupReturnsLatest ==
    lookup # NoLookup =>
        /\ lookup.key.id = lookup.oid
        /\ lookup.key.xid <= lookup.xid
        /\ \A k \in LeafKeys :
              (k.id = lookup.oid /\ k.xid <= lookup.xid)
                  => k.xid <= lookup.key.xid

\* C16: a lookup of (oid, at_xid) in an object map succeeds only when the
\* map holds a record of that oid with xid <= at_xid, and what it returns
\* is such a record: it fails rather than return a record of another oid or
\* of a greater xid
C16_LookupSucceedsOnlyOnRecord ==
    lookup # NoLookup =>
        /\ \E k \in LeafKeys : k.id = lookup.oid /\ k.xid <= lookup.xid
        /\ lookup.key.id = lookup.oid
        /\ lookup.key.xid <= lookup.xid

(***************************************************************************)
(* SpecBmap: the allocation bitmaps of one checkpoint (spaceman.c).  A     *)
(* bitmap is the set of the numbers of its bits that are 1.  A u64 block   *)
(* number is kept AddrBits wide, so that the sums of the source wrap as    *)
(* they do at 64 bits; a chunk is BlocksPerChunk blocks.                   *)
(***************************************************************************)
AddrBits == 4

AddrSpace == 2 ^ AddrBits

\* APFS_FUSION_TIER2_DEVICE_BYTE_ADDR >> sb->s_blocksize_bits
Tier2Blkno == AddrSpace \div 2

\* sm->sm_blocks_per_chunk
BlocksPerChunk == 2

MaxCalls == 2

U64Add(a, b) == (a + b) % AddrSpace

U64Sub(a, b) == (a - b) % AddrSpace

block_in_ip(g, bno) ==
    LET start == g.sm_ip_base
        end == U64Add(start, g.sm_ip_block_count)
    IN  bno >= start /\ bno < end

range_in_ip(g, paddr, length) ==
    LET last == U64Sub(U64Add(paddr, length), 1)
        first_in_ip == block_in_ip(g, paddr)
        last_in_ip == block_in_ip(g, last)
    IN  IF first_in_ip # last_in_ip
        THEN Report("Free queue record: internal pool is overrun.")
        ELSE [rpt |-> "", in_ip |-> first_in_ip]

\* the loop of bmap_mark_as_used() from bit i on
RECURSIVE bmap_mark_from(_, _, _)
bmap_mark_from(bitmap, i, end) ==
    IF i >= end THEN [rpt |-> "", bitmap |-> bitmap]
    ELSE IF i \in bitmap
    THEN [rpt |-> "A block is used twice.", bitmap |-> bitmap]
    ELSE bmap_mark_from(bitmap \cup {i}, i + 1, end)

\* a marking that never looks at the bits it sets
bmap_mark_as_used_unchecked(bitmap, paddr, length) ==
    [rpt |-> "",
     bitmap |-> bitmap \cup {i \in 0..(AddrSpace - 1) :
                                i >= paddr /\ i < U64Add(paddr, length)}]

bmap_mark_as_used(bitmap, paddr, length) ==
    bmap_mark_from(bitmap, paddr, U64Add(paddr, length))

ip_bmap_mark_as_used(g, ip_bitmap, paddr, length) ==
    Then(range_in_ip(g, paddr, length), LAMBDA r :
        IF ~r.in_ip THEN Report("Out-of-range ip block number.")
        ELSE bmap_mark_as_used(ip_bitmap, U64Sub(paddr, g.sm_ip_base),
                               length))

\* the result says which bitmap was marked
container_bmap_mark_as_used(g, main, tier2, paddr0, length) ==
    LET is_tier2 == paddr0 >= Tier2Blkno
        paddr == IF is_tier2 THEN paddr0 - Tier2Blkno ELSE paddr0
        max_dev_blkcnt == IF is_tier2 THEN g.s_max_tier2_blkcnt
                          ELSE g.s_max_main_blkcnt
    IN  IF U64Add(paddr, length) > max_dev_blkcnt
           \/ U64Add(paddr, length) < paddr
        THEN Report("Out-of-range block number.")
        ELSE Let(bmap_mark_as_used(IF is_tier2 THEN tier2 ELSE main, paddr,
                                   length), LAMBDA r :
                 [rpt |-> r.rpt, bitmap |-> r.bitmap, tier2 |-> is_tier2])

\* the bits of the first chunk_count chunks of a bitmap
ChunkBits(bitmap, chunk_count) ==
    bitmap \cap (0..(chunk_count * BlocksPerChunk - 1))

compare_container_bitmaps_dev(dev, real_bmap) ==
    IF dev.sm_chunk_count = 0 THEN [rpt |-> ""]
    ELSE IF ChunkBits(dev.sm_bitmap, dev.sm_chunk_count)
            # ChunkBits(real_bmap, dev.sm_chunk_count)
    THEN Report("Space manager: bad allocation bitmap.")
    ELSE [rpt |-> ""]

\* the counts of a device that parse_spaceman_device() checks before the
\* bitmaps are read; the other fields hold what the checker expects
parse_spaceman_device(dev, max_blkcnt) ==
    IF dev.sm_block_count > max_blkcnt
    THEN Report("Spaceman device: block count too big for device.")
    ELSE IF dev.sm_chunk_count
            # DIV_ROUND_UP(dev.sm_block_count, BlocksPerChunk)
    THEN Report("Spaceman device: wrong count of chunks.")
    ELSE [rpt |-> ""]

\* the devices: the main device alone, or with a tier 2 device; the
\* container fills them or is smaller (parse_main_super() reports a block
\* count that is zero or too big for the devices)
DeviceSamples ==
    {g \in [s_max_main_blkcnt : {BlocksPerChunk, 2 * BlocksPerChunk},
            s_max_tier2_blkcnt : {0, BlocksPerChunk},
            s_block_count : {BlocksPerChunk, 2 * BlocksPerChunk,
                             3 * BlocksPerChunk},
            sm_ip_base : {1}, sm_ip_block_count : {BlocksPerChunk},
            sm_chunk_count : {0}] :
        g.s_block_count <= g.s_max_main_blkcnt + g.s_max_tier2_blkcnt}

PaddrSamples == {0, 1, 2, 3, Tier2Blkno, Tier2Blkno + 1, AddrSpace - 1}

LengthSamples == {0, 1, 2, AddrSpace - 1}

\* parse_main_super() allocates the bitmaps: block zero is always used
InitBmap ==
    /\ sm \in DeviceSamples
    /\ s_main_bitmap = {0}
    /\ s_tier2_bitmap = IF sm.s_max_tier2_blkcnt # 0 THEN {0} ELSE {}
    /\ s_ip_bitmap = {}
    /\ sm_dev = NoDev
    /\ call = NoCall
    /\ param = NoParam
    /\ disk = <<>>
    /\ rpt = ""
    /\ pc = "marking"
    /\ IdleNode /\ IdleWalk /\ IdleOmap /\ IdleCsum /\ IdleAudit /\ IdleRun

ContainerMark ==
    /\ pc = "marking"
    /\ call.n < MaxCalls
    /\ \E paddr \in PaddrSamples, length \in LengthSamples :
       \E r \in {container_bmap_mark_as_used(sm, s_main_bitmap,
                                             s_tier2_bitmap, paddr, length)} :
          /\ call' = [n |-> call.n + 1, fn |-> "container",
                      paddr |-> paddr, length |-> length]
          /\ rpt' = r.rpt
          /\ pc' = IF Reported(r) THEN "exit" ELSE pc
          /\ s_main_bitmap' = IF "bitmap" \in DOMAIN r /\ ~r.tier2
                              THEN r.bitmap ELSE s_main_bitmap
          /\ s_tier2_bitmap' = IF "bitmap" \in DOMAIN r /\ r.tier2
                               THEN r.bitmap ELSE s_tier2_bitmap
    /\ UNCHANGED <<disk, s_ip_bitmap, sm, sm_dev, param, otherThanBmap>>

IpMark ==
    /\ pc = "marking"
    /\ call.n < MaxCalls
    /\ \E paddr \in PaddrSamples, length \in LengthSamples :
       \E r \in {ip_bmap_mark_as_used(sm, s_ip_bitmap, paddr, length)} :
          /\ call' = [n |-> call.n + 1, fn |-> "ip",
                      paddr |-> paddr, length |-> length]
          /\ rpt' = r.rpt
          /\ pc' = IF Reported(r) THEN "exit" ELSE pc
          /\ s_ip_bitmap' = IF "bitmap" \in DOMAIN r
                            THEN r.bitmap ELSE s_ip_bitmap
    /\ UNCHANGED <<disk, s_main_bitmap, s_tier2_bitmap, sm, sm_dev, param,
                   otherThanBmap>>

\* the bitmap with bit b inverted; the bitmap itself if b is -1
FlipBit(bitmap, b) ==
    IF b = -1 THEN bitmap
    ELSE IF b \in bitmap THEN bitmap \ {b} ELSE bitmap \cup {b}

\* what the disk can say of a device of max_blkcnt blocks whose bitmap in
\* memory is real_bmap: any block count, and a bitmap that is the one in
\* memory or differs from it in one bit
DevSamples(max_blkcnt, real_bmap) ==
    UNION {
      { [sm_block_count |-> blocks,
         sm_chunk_count |-> DIV_ROUND_UP(blocks, BlocksPerChunk),
         sm_bitmap |->
            FlipBit(ChunkBits(real_bmap,
                              DIV_ROUND_UP(blocks, BlocksPerChunk)), b)]
        : b \in -1..(DIV_ROUND_UP(blocks, BlocksPerChunk) * BlocksPerChunk
                     - 1) }
      : blocks \in {0, BlocksPerChunk, max_blkcnt, max_blkcnt + 1} }

\* check_spaceman(): the devices are parsed, their bitmaps are read, and at
\* the end the bitmaps are compared with those built in memory
CheckSpaceman ==
    /\ pc = "marking"
    /\ \E main \in DevSamples(sm.s_max_main_blkcnt, s_main_bitmap),
          tier2 \in DevSamples(sm.s_max_tier2_blkcnt, s_tier2_bitmap) :
       \E r \in {Then(parse_spaceman_device(main, sm.s_max_main_blkcnt),
                 LAMBDA a :
                 Then(parse_spaceman_device(tier2, sm.s_max_tier2_blkcnt),
                 LAMBDA b :
                 Then(IF sm.s_block_count
                         # main.sm_block_count + tier2.sm_block_count
                      THEN Report("Spaceman devices: wrong block count.")
                      ELSE [rpt |-> ""],
                 LAMBDA d :
                 Then(compare_container_bitmaps_dev(main, s_main_bitmap),
                 LAMBDA c :
                 compare_container_bitmaps_dev(tier2, s_tier2_bitmap)))))} :
          /\ sm_dev' = [main |-> main, tier2 |-> tier2]
          /\ rpt' = r.rpt
          /\ pc' = IF Reported(r) THEN "exit" ELSE "bmap_done"
    /\ UNCHANGED <<disk, s_main_bitmap, s_tier2_bitmap, s_ip_bitmap, sm,
                   call, param, otherThanBmap>>

NextBmap == ContainerMark \/ IpMark \/ CheckSpaceman

SpecBmap == InitBmap /\ [][NextBmap]_vars

(***************************************************************************)
(* SpecCsum: the readers of object blocks.  parse_filesystem() reads the   *)
(* superblock of block zero, scans the checkpoint descriptor area for the  *)
(* latest superblock, reads a block of the area as an object and parses    *)
(* the object map of the container, which is a single leaf here.  The      *)
(* image is block zero, RingBlocks blocks of the descriptor area, the      *)
(* struct apfs_omap_phys and the root of the object map.                   *)
(***************************************************************************)
RingBlocks == 2

APFS_NX_MAGIC == 1112758350

APFS_OID_NX_SUPERBLOCK == 1

APFS_NX_BLOCK_NUM == 0

\* nx_xp_desc_base of block zero
DescBase == 1

DescBlocks == DescBase..(DescBase + RingBlocks - 1)

CsumOmapBlock == DescBase + RingBlocks

CsumRootBlock == CsumOmapBlock + 1

\* the blocks that hold a container superblock when their magic is right
SuperBlocks == {APFS_NX_BLOCK_NUM} \cup DescBlocks

\* a body, and the same words in another order
BodySamples == {NodeBody, <<NodeBody[2], NodeBody[1]>>}

SuperSamples ==
    [nx_magic : {APFS_NX_MAGIC, 0}, o_cksum : {fletcher64(NodeBody)},
     body : BodySamples, o_oid : {APFS_OID_NX_SUPERBLOCK, 2}, o_xid : {1}]

DescSamples ==
    [nx_magic : {APFS_NX_MAGIC, 0}, o_cksum : {fletcher64(NodeBody)},
     body : BodySamples, o_oid : {APFS_OID_NX_SUPERBLOCK}, o_xid : {1, 2}]

CsumOmapSamples ==
    [o_cksum : {fletcher64(NodeBody)}, body : BodySamples,
     o_oid : {CsumOmapBlock, CsumOmapBlock + 1},
     om_tree_oid : {CsumRootBlock}]

\* a root that is a leaf with one record
CsumRootSamples ==
    {[MkNode(CsumRootBlock, CsumRootBlock, 7,
             <<[k_off |-> 0, k_len |-> 16, v_off |-> 16, v_len |-> 16,
                key |-> [id |-> 1, xid |-> 1], val |-> [ov_paddr |-> 1]]>>)
        EXCEPT !.body = body, !.btn_nkeys = nkeys]
      : body \in BodySamples, nkeys \in {0, 1}}

\* a reader of block zero that takes the checksum as it is
read_super_copy_unverified ==
    LET msb_raw == disk[APFS_NX_BLOCK_NUM]
    IN  IF msb_raw.nx_magic # APFS_NX_MAGIC
        THEN Report("Not an apfs container - are you checking the right partition?")
        ELSE IF msb_raw.o_oid # APFS_OID_NX_SUPERBLOCK
        THEN Report("Block zero: bad object id.")
        ELSE [rpt |-> "", val |-> APFS_NX_BLOCK_NUM]

read_super_copy ==
    LET msb_raw == disk[APFS_NX_BLOCK_NUM]
    IN  IF msb_raw.nx_magic # APFS_NX_MAGIC
        THEN Report("Not an apfs container - are you checking the right partition?")
        ELSE IF ~obj_verify_csum(msb_raw)
        THEN Report("Block zero: bad checksum.")
        ELSE IF msb_raw.o_oid # APFS_OID_NX_SUPERBLOCK
        THEN Report("Block zero: bad object id.")
        ELSE [rpt |-> "", val |-> APFS_NX_BLOCK_NUM]

\* the loop of read_latest_super() from block bno on: the block number of
\* latest, or NULL
RECURSIVE latest_super_from(_, _, _, _)
latest_super_from(bno, end, xid, latest) ==
    IF bno >= end THEN latest
    ELSE IF \/ disk[bno].nx_magic # APFS_NX_MAGIC
            \/ disk[bno].o_xid <= xid
            \/ ~obj_verify_csum(disk[bno])
    THEN latest_super_from(bno + 1, end, xid, latest)
    ELSE latest_super_from(bno + 1, end, disk[bno].o_xid, bno)

read_latest_super(base, blocks) ==
    Let(latest_super_from(base, base + blocks, 0, NULL), LAMBDA latest :
        IF latest = NULL
        THEN Report("Checkpoint descriptor area: no valid superblock.")
        ELSE [rpt |-> "", val |-> latest])

read_object_nocheck(bno) ==
    IF ~obj_verify_csum(disk[bno])
    THEN Report("Object header: bad checksum in block.")
    ELSE [rpt |-> "", val |-> bno,
          obj |-> [oid |-> disk[bno].o_oid, xid |-> disk[bno].o_xid,
                   block_nr |-> bno]]

\* parse_subtree() on a leaf: the loop over its records from record i on
RECURSIVE parse_leaf_from(_, _, _, _)
parse_leaf_from(n, i, last, ub) ==
    IF ~U32Less(i, n.records) THEN [rpt |-> "", key |-> last]
    ELSE Then(parse_record(n, i, last, NoNode, ub), LAMBDA r :
             parse_leaf_from(n, i + 1, r.key, ub))

\* parse_omap_btree() on an object map whose root is a leaf
parse_omap_btree(oid, info, ub) ==
    Then(read_omap_phys(oid), LAMBDA b :
    Then(read_node(b.val, ub), LAMBDA root :
    Then(parse_leaf_from(root.node, 0, NoKey, ub), LAMBDA w :
    Then(check_btree_footer(info, CountNode(NoStats, root.node)), LAMBDA f :
        [rpt |-> "", val |-> b.val, node |-> root.node]))))

InitCsum ==
    /\ \E zero \in SuperSamples, ring \in [DescBlocks -> DescSamples],
          om \in CsumOmapSamples, root \in CsumRootSamples :
          disk = [b \in SuperBlocks \cup {CsumOmapBlock, CsumRootBlock} |->
                    IF b = APFS_NX_BLOCK_NUM THEN zero
                    ELSE IF b = CsumOmapBlock THEN om
                    ELSE IF b = CsumRootBlock THEN root
                    ELSE ring[b]]
    /\ rpt = ""
    /\ pc = "csum_start"
    /\ mapped = {} /\ scanned = {} /\ used = {}
    /\ IdleNode /\ IdleWalk /\ IdleOmap /\ IdleBmap /\ IdleAudit /\ IdleRun

ReadSuperCopy ==
    /\ pc = "csum_start"
    /\ \E r \in {read_super_copy} :
          /\ mapped' = mapped \cup {APFS_NX_BLOCK_NUM}
          /\ rpt' = r.rpt
          /\ pc' = IF Reported(r) THEN "exit" ELSE "csum_scan"
          /\ used' = IF Reported(r) THEN used ELSE used \cup {r.val}
    /\ UNCHANGED <<disk, scanned, otherThanCsum>>

\* preread_checkpoint_info(): the descriptor area is scanned for the latest
\* superblock
ReadLatestSuper ==
    /\ pc = "csum_scan"
    /\ \E r \in {read_latest_super(DescBase, RingBlocks)} :
          /\ scanned' = DescBlocks
          /\ rpt' = r.rpt
          /\ pc' = IF Reported(r) THEN "exit" ELSE "csum_cpoint"
          /\ used' = IF Reported(r) THEN used ELSE used \cup {r.val}
    /\ UNCHANGED <<disk, mapped, otherThanCsum>>

\* the loop of parse_filesystem() reads the blocks of the checkpoint with
\* read_object_nocheck(); index is what the latest superblock says
ReadObjectNocheck ==
    /\ pc = "csum_cpoint"
    /\ \E index \in 0..(RingBlocks - 1) :
       \E r \in {read_object_nocheck(DescBase + index)} :
          /\ mapped' = mapped \cup {DescBase + index}
          /\ rpt' = r.rpt
          /\ pc' = IF Reported(r) THEN "exit" ELSE "csum_omap"
          /\ used' = IF Reported(r) THEN used ELSE used \cup {r.val}
    /\ UNCHANGED <<disk, scanned, otherThanCsum>>

\* parse_main_super() parses the object map of the container; the root is
\* mapped once the struct apfs_omap_phys has passed its checks
ParseOmapBtree ==
    /\ pc = "csum_omap"
    /\ \E info \in InfoSamples, ub \in BOOLEAN :
       \E r \in {parse_omap_btree(CsumOmapBlock, info, ub)} :
       \E head \in {read_omap_phys(CsumOmapBlock)} :
          /\ mapped' = mapped \cup {CsumOmapBlock}
                       \cup (IF Reported(head) THEN {} ELSE {head.val})
          /\ rpt' = r.rpt
          /\ pc' = IF Reported(r) THEN "exit" ELSE "csum_done"
          /\ used' = used
                     \cup (IF Reported(head) THEN {} ELSE {CsumOmapBlock})
                     \cup (IF Reported(r) THEN {} ELSE {r.val})
    /\ UNCHANGED <<disk, scanned, otherThanCsum>>

NextCsum ==
    ReadSuperCopy \/ ReadLatestSuper \/ ReadObjectNocheck \/ ParseOmapBtree

SpecCsum == InitCsum /\ [][NextCsum]_vars

\* the stored checksum of block b is the Fletcher-64 of what follows it
CsumMatches(b) == disk[b].o_cksum = fletcher64(disk[b].body)

BadChecksumReports ==
    {"Block zero: bad checksum.", "Object header: bad checksum in block.",
     "B-tree node: bad checksum in block.", "Object map: bad checksum."}

\* every block handed to a caller has a matching checksum
UsedBlocksMatch == \A b \in used : CsumMatches(b)

\* the block holds an object: block zero holds one when it has the magic of
\* a container superblock
HoldsObject(b) == b = APFS_NX_BLOCK_NUM => disk[b].nx_magic = APFS_NX_MAGIC

\* a mismatch in a block mapped by a reader other than the scan of the
\* descriptor area has ended the run with a bad checksum report
MappedMismatchReported ==
    \A b \in mapped :
        (HoldsObject(b) /\ ~CsumMatches(b)) => rpt \in BadChecksumReports

CoveredUsed(c, main, tier2, ip, g) ==
    LET base == IF c.fn = "ip" THEN g.sm_ip_base
                ELSE IF c.paddr >= Tier2Blkno THEN Tier2Blkno ELSE 0
        bitmap == IF c.fn = "ip" THEN ip
                  ELSE IF c.paddr >= Tier2Blkno THEN tier2 ELSE main
    IN  {b \in bitmap : /\ base + b >= c.paddr
                        /\ base + b < c.paddr + c.length}

\* the range of the call lies inside the device, or inside the pool
RangeInside(c, g) ==
    IF c.fn = "ip"
    THEN /\ c.paddr >= g.sm_ip_base
         /\ c.paddr + c.length <= g.sm_ip_base + g.sm_ip_block_count
    ELSE IF c.paddr >= Tier2Blkno
    THEN c.paddr - Tier2Blkno + c.length <= g.s_max_tier2_blkcnt
    ELSE c.paddr + c.length <= g.s_max_main_blkcnt

\* the bits of the bitmaps only ever change from 0 to 1
BitsOnlySet ==
    /\ s_main_bitmap \subseteq s_main_bitmap'
    /\ s_tier2_bitmap \subseteq s_tier2_bitmap'
    /\ s_ip_bitmap \subseteq s_ip_bitmap'

\* C2: over any sequence of calls that mark block ranges as used, bits of
\* the bitmaps only ever change from 0 to 1, and any call whose range covers
\* a bit that is already 1 ends the run with "A block is used twice.".
C2_DoubleMarkIsUsedTwice ==
    [][/\ BitsOnlySet
       /\ (/\ call'.n # call.n
           /\ CoveredUsed(call', s_main_bitmap, s_tier2_bitmap, s_ip_bitmap,
                          sm) # {})
          => rpt' = "A block is used twice."]_vars

\* C2, for the calls whose range lies inside the device or the pool: bits
\* only ever change from 0 to 1, and a call whose range lies inside and
\* covers a bit that is already 1 ends the run with "A block is used
\* twice.".
C2_DoubleMarkInsideIsUsedTwice ==
    [][/\ BitsOnlySet
       /\ (/\ call'.n # call.n
           /\ RangeInside(call', sm)
           /\ CoveredUsed(call', s_main_bitmap, s_tier2_bitmap, s_ip_bitmap,
                          sm) # {})
          => rpt' = "A block is used twice."]_vars

\* a second call has met a bit that an earlier call had set
C2_UsedTwiceReported ==
    /\ rpt = "A block is used twice."
    /\ call.n = 2
    /\ RangeInside(call, sm)

\* C6: the run gets past check_spaceman() only if the bitmap of each device
\* built in memory equals the bitmap on disk bit for bit.
C6_AcceptedBitmapsEqual ==
    pc = "bmap_done" =>
        /\ sm_dev.main.sm_chunk_count # 0
              => s_main_bitmap = sm_dev.main.sm_bitmap
        /\ sm_dev.tier2.sm_chunk_count # 0
              => s_tier2_bitmap = sm_dev.tier2.sm_bitmap

\* C3: in every accepted B-tree no two leaf records have equal keys, whether
\* they sit in the same leaf or are the last record of one leaf and the
\* first record of the next.  The walk is over and accepted, and the two
\* leaves are two blocks, the children of the two records of the root.
C3_NoRepeatedLeafKeys ==
    (pc = "walk_done" /\ omap_root = NoNode) =>
        LET root == disk[RootBlock]
        IN  (/\ root.btn_flags = 5
             /\ Len(root.toc) = 2
             /\ root.toc[1].val # root.toc[2].val
             /\ node_is_leaf([flags |-> disk[root.toc[1].val].btn_flags])
             /\ node_is_leaf([flags |-> disk[root.toc[2].val].btn_flags]))
            => LET l1 == disk[root.toc[1].val].toc
                   l2 == disk[root.toc[2].val].toc
               IN  l1[Len(l1)].key.id # l2[1].key.id

\* C4: a tree deeper than 12 levels, or one whose child pointers form a
\* loop, is rejected instead of being followed: the recursion of the walk
\* never goes deeper than the 12 levels btree_query() allows.
C4_WalkDepthBounded == Len(stack) <= BTREE_MAX_DEPTH

\* C10: every node the checker uses has at least one record, a table of
\* contents that holds all its records (record count times entry size <=
\* keys-area offset minus header size), and every key and value located in
\* it lies wholly inside the block.
C10_UsedNodeIsSane ==
    node # NoNode =>
        /\ node.records # 0
        /\ ~U32Less((node.key - BTREE_NODE_PHYS_SIZE) \div EntrySize(node),
                    node.records)
        /\ loc # NoLoc => (loc.off >= 0 /\ loc.off + loc.len <= s_blocksize)

(***************************************************************************)
(* SpecInode: the inode and dentry records of a catalog are handed to      *)
(* parse_inode_record() and parse_dentry_record() in the order of their    *)
(* keys, then free_inode_table() checks every inode of the table.  The     *)
(* inodes of the model have no data stream, no xattr and no flag, and the  *)
(* catalog holds no sibling link record.                                   *)
(***************************************************************************)
MaxNlink == 1

APFS_INVALID_INO_NUM == 0

APFS_ROOT_DIR_PARENT == 1

APFS_ROOT_DIR_INO_NUM == 2

APFS_PRIV_DIR_INO_NUM == 3

APFS_SNAP_DIR_INO_NUM == 6

APFS_MIN_USER_INO_NUM == 16

S_IFMT == 61440

S_IFSOCK == 49152

S_IFLNK == 40960

S_IFREG == 32768

S_IFBLK == 24576

S_IFDIR == 16384

S_IFCHR == 8192

S_IFIFO == 4096

APFS_INODE_HAS_RSRC_FORK == 16384

APFS_DREC_TYPE_MASK == 15

InoSamples == {APFS_ROOT_DIR_INO_NUM, APFS_MIN_USER_INO_NUM}

NameSamples == {<<2>>, <<3>>}

\* mode & S_IFMT
FileType(mode) == ((mode \div 4096) % 16) * 4096

\* a struct inode as calloc() leaves it
NewInode(ino) ==
    [i_ino |-> ino, i_seen |-> FALSE, i_mode |-> 0, i_nlink |-> 0,
     i_size |-> 0, i_alloced_size |-> 0, i_sparse_bytes |-> 0,
     i_flags |-> 0, i_name |-> NoName,
     i_xattr_bmap |-> [symlink |-> FALSE, rsrc_fork |-> FALSE],
     i_child_count |-> 0, i_link_count |-> 0, i_first_name |-> NoName,
     i_siblings |-> <<>>]

\* i_nchildren and i_nlink are the two names of one u32 of struct inode
i_nchildren(inode) == inode.i_nlink

\* the table once get_inode() has found or made the entry of ino
get_inode(ino, table) ==
    IF ino \in DOMAIN table THEN table ELSE (ino :> NewInode(ino)) @@ table

\* the struct dstream get_dstream() makes for an inode with no data stream
ZeroDstream == [d_size |-> 0, d_sparse_bytes |-> 0]

\* a check that forgets the links of a file
check_inode_stats_dironly(inode, ds) ==
    IF FileType(inode.i_mode) = S_IFDIR
       /\ inode.i_link_count # 1
    THEN Report("Inode record: directory has hard links.")
    ELSE IF FileType(inode.i_mode) = S_IFDIR
            /\ i_nchildren(inode) # inode.i_child_count
    THEN Report("Inode record: wrong directory child count.")
    ELSE [rpt |-> ""]

check_inode_stats(inode, ds) ==
    Then(IF FileType(inode.i_mode) = S_IFDIR
         THEN (IF inode.i_link_count # 1
               THEN Report("Inode record: directory has hard links.")
               ELSE IF i_nchildren(inode) # inode.i_child_count
               THEN Report("Inode record: wrong directory child count.")
               ELSE [rpt |-> ""])
         ELSE (IF inode.i_nlink # inode.i_link_count
               THEN Report("Inode record: wrong link count.")
               ELSE [rpt |-> ""]), LAMBDA a :
        IF ds.d_size < inode.i_size
        THEN Report("Inode record: some extents are missing.")
        ELSE IF ds.d_size # inode.i_alloced_size
        THEN Report("Inode record: wrong allocated space for dstream.")
        ELSE IF ds.d_sparse_bytes # inode.i_sparse_bytes
        THEN Report("Inode record: wrong count of sparse bytes.")
        ELSE IF inode.i_xattr_bmap.symlink
                # (FileType(inode.i_mode) = S_IFLNK)
        THEN Report("Inode record: symlink inode should come with target xattr.")
        ELSE IF inode.i_xattr_bmap.rsrc_fork
                # ((inode.i_flags \div APFS_INODE_HAS_RSRC_FORK) % 2 = 1)
        THEN Report("Inode record: wrong flag for resource fork.")
        ELSE [rpt |-> ""])

\* the siblings from position i on that free_inode_names() walks: a report,
\* or how many there are
RECURSIVE count_siblings(_, _)
count_siblings(siblings, i) ==
    IF i > Len(siblings) THEN [rpt |-> "", count |-> 0]
    ELSE IF ~siblings[i].s_checked
    THEN Report("Catalog: orphaned or missing sibling link.")
    ELSE Then(count_siblings(siblings, i + 1), LAMBDA r :
             [rpt |-> "", count |-> r.count + 1])

free_inode_names(inode) ==
    IF inode.i_name = NoName
    THEN Report("Inode record: no name for primary link.")
    ELSE IF inode.i_first_name = NoName
    THEN Report("Catalog: inode with no dentries.")
    ELSE IF inode.i_siblings # <<>>
            /\ strcmp(inode.i_name, inode.i_siblings[1].s_name) # 0
    THEN Report("Inode record: wrong name for primary link.")
    ELSE IF inode.i_siblings = <<>>
            /\ strcmp(inode.i_name, inode.i_first_name) # 0
    THEN Report("Inode record: wrong name for only link.")
    ELSE Then(count_siblings(inode.i_siblings, 1), LAMBDA r :
             IF inode.i_link_count = 1 /\ r.count = 0 THEN [rpt |-> ""]
             ELSE IF r.count # inode.i_link_count
             THEN Report("Inode record: link count inconsistent with sibling records.")
             ELSE [rpt |-> ""])

\* the loop of free_inode_table() over the inodes inos, lowest number first
RECURSIVE free_inodes(_, _)
free_inodes(table, inos) ==
    IF inos = {} THEN [rpt |-> ""]
    ELSE Let(CHOOSE i \in inos : \A j \in inos : i <= j, LAMBDA ino :
         Then(check_inode_stats(table[ino], ZeroDstream), LAMBDA a :
         Then(free_inode_names(table[ino]), LAMBDA b :
              free_inodes(table, inos \ {ino}))))

free_inode_table(table) == free_inodes(table, DOMAIN table)

check_inode_ids(ino, parent_ino) ==
    IF ino < APFS_MIN_USER_INO_NUM
    THEN (IF ino \in {APFS_INVALID_INO_NUM, APFS_ROOT_DIR_PARENT}
          THEN Report("Inode record: invalid inode number.")
          ELSE IF ino \in {APFS_ROOT_DIR_INO_NUM, APFS_PRIV_DIR_INO_NUM,
                           APFS_SNAP_DIR_INO_NUM}
          THEN (IF parent_ino # APFS_ROOT_DIR_PARENT
                THEN Report("Root inode record: bad parent id")
                ELSE [rpt |-> ""])
          ELSE Report("Inode record: reserved inode number."))
    ELSE IF parent_ino >= APFS_MIN_USER_INO_NUM THEN [rpt |-> ""]
    ELSE IF parent_ino = APFS_INVALID_INO_NUM
    THEN Report("Inode record: invalid parent inode number.")
    ELSE IF parent_ino = APFS_ROOT_DIR_PARENT
    THEN Report("Inode record: root parent id for nonroot.")
    ELSE IF parent_ino \in {APFS_ROOT_DIR_INO_NUM, APFS_PRIV_DIR_INO_NUM,
                            APFS_SNAP_DIR_INO_NUM}
    THEN [rpt |-> ""]
    ELSE Report("Inode record: reserved parent inode number.")

\* val is the record value: the parent id, the mode, the link or child
\* count and the name of the name xfield (NoName when there is none)
parse_inode_record(table, ino, val) ==
    Let(get_inode(ino, table), LAMBDA t :
        IF t[ino].i_seen
        THEN Report("Catalog: inode numbers are repeated.")
        ELSE
        Then(check_inode_ids(ino, val.parent_id), LAMBDA c :
            IF t[ino].i_mode # 0 /\ t[ino].i_mode # FileType(val.mode)
            THEN Report("Inode record: file mode doesn't match dentry type.")
            ELSE IF FileType(val.mode) \notin
                       {S_IFREG, S_IFDIR, S_IFLNK,
                        S_IFSOCK, S_IFBLK, S_IFCHR, S_IFIFO}
            THEN Report("Inode record: invalid file mode.")
            ELSE IF FileType(val.mode) \in {S_IFCHR, S_IFBLK}
            THEN Report("Inode record: device file with no device ID.")
            ELSE [rpt |-> "",
                  table |-> [t EXCEPT ![ino] =
                               [@ EXCEPT !.i_seen = TRUE,
                                         !.i_mode = val.mode,
                                         !.i_nlink = val.nlink,
                                         !.i_name = val.name]]]))

\* a check of the parent that takes an inode nobody has seen
dentry_parent_unseen(table, parent_ino) ==
    IF parent_ino = APFS_ROOT_DIR_PARENT THEN [rpt |-> "", table |-> table]
    ELSE Let(get_inode(parent_ino, table), LAMBDA t :
             IF t[parent_ino].i_seen
                /\ FileType(t[parent_ino].i_mode) # S_IFDIR
             THEN Report("Dentry record: parent inode not directory.")
             ELSE [rpt |-> "",
                   table |-> [t EXCEPT ![parent_ino].i_child_count = @ + 1]])

\* the parent of the dentry is checked and counts one more child
dentry_parent(table, parent_ino) ==
    IF parent_ino = APFS_ROOT_DIR_PARENT THEN [rpt |-> "", table |-> table]
    ELSE Let(get_inode(parent_ino, table), LAMBDA t :
             IF ~t[parent_ino].i_seen
             THEN Report("Dentry record: parent inode missing")
             ELSE IF FileType(t[parent_ino].i_mode) # S_IFDIR
             THEN Report("Dentry record: parent inode not directory.")
             ELSE [rpt |-> "",
                   table |-> [t EXCEPT ![parent_ino].i_child_count = @ + 1]])

\* val is the record value: the file id and the flags
parse_dentry_record(table, parent_ino, val) ==
    Let(get_inode(val.file_id, table), LAMBDA t :
    Then(dentry_parent([t EXCEPT ![val.file_id].i_link_count = @ + 1],
                       parent_ino), LAMBDA p :
    Let(p.table[val.file_id].i_mode \div 4096, LAMBDA filetype :
        IF val.flags % (APFS_DREC_TYPE_MASK + 1) # val.flags
        THEN Report("Dentry record: reserved flags in use.")
        ELSE IF filetype # 0 /\ filetype # val.flags
        THEN Report("Dentry record: file mode doesn't match dentry type.")
        ELSE IF val.flags = 0
        THEN Report("Dentry record: invalid dentry type.")
        ELSE [rpt |-> "",
              table |-> [p.table EXCEPT ![val.file_id].i_mode =
                           IF filetype = 0 THEN @ + val.flags * 4096
                           ELSE @]])))

\* i_first_name is the name of the first dentry met that points to the inode
first_name(table, file_id, name) ==
    IF table[file_id].i_first_name # NoName THEN table
    ELSE [table EXCEPT ![file_id].i_first_name = name]

InodeValSamples ==
    [parent_id : {APFS_ROOT_DIR_PARENT, APFS_ROOT_DIR_INO_NUM},
     mode : {0, S_IFDIR, S_IFREG}, nlink : 0..MaxNlink,
     name : {NoName} \cup NameSamples]

DentryValSamples == [file_id : InoSamples, flags : {4, 8, 16}]

InitInode ==
    /\ cat_last = NoKey
    /\ inode_table = <<>>
    /\ dentries = {}
    /\ dstream = NoDstream /\ extent_table = <<>> /\ tally = NoTally
    /\ vsb = NoVolume
    /\ disk = <<>>
    /\ rpt = ""
    /\ pc = "cat_walk"
    /\ IdleNode /\ IdleWalk /\ IdleOmap /\ IdleBmap /\ IdleCsum /\ IdleRun

ParseInodeRecord ==
    /\ pc = "cat_walk"
    /\ \E ino \in InoSamples, val \in InodeValSamples :
       \E key \in {[id |-> ino, type |-> APFS_TYPE_INODE, number |-> 0,
                    name |-> NoName]} :
       /\ keycmp(cat_last, key) < 0
       /\ \E r \in {parse_inode_record(inode_table, ino, val)} :
          /\ cat_last' = IF Reported(r) THEN cat_last ELSE key
          /\ rpt' = r.rpt
          /\ pc' = IF Reported(r) THEN "exit" ELSE pc
          /\ inode_table' = IF Reported(r) THEN inode_table ELSE r.table
    /\ UNCHANGED <<disk, dentries, dstream, extent_table, tally,
                   vsb,
                   otherThanAudit>>

\* a dentry record of the directory parent_ino; the name of the key is kept
\* as the first name of the inode when it has none yet
ParseDentryRecord ==
    /\ pc = "cat_walk"
    /\ \E parent_ino \in {APFS_ROOT_DIR_PARENT} \cup InoSamples,
          name \in NameSamples, val \in DentryValSamples :
       \E key \in {[id |-> parent_ino, type |-> APFS_TYPE_DIR_REC,
                    number |-> dentry_hash(name), name |-> name]} :
       /\ keycmp(cat_last, key) < 0
       /\ \E r \in {parse_dentry_record(inode_table, parent_ino, val)} :
          /\ cat_last' = IF Reported(r) THEN cat_last ELSE key
          /\ rpt' = r.rpt
          /\ pc' = IF Reported(r) THEN "exit" ELSE pc
          /\ inode_table' = IF Reported(r) THEN inode_table
                            ELSE first_name(r.table, val.file_id, name)
          /\ dentries' = IF Reported(r) THEN dentries
                         ELSE dentries \cup {[parent |-> parent_ino,
                                              name |-> name,
                                              file_id |-> val.file_id]}
    /\ UNCHANGED <<disk, dstream, extent_table, tally, vsb,
                   otherThanAudit>>

\* the catalog is over; the table is kept as it was when it was checked
FreeInodeTable ==
    /\ pc = "cat_walk"
    /\ \E r \in {free_inode_table(inode_table)} :
          /\ rpt' = r.rpt
          /\ pc' = IF Reported(r) THEN "exit" ELSE "inodes_done"
    /\ UNCHANGED <<disk, auditVars, otherThanAudit>>

NextInode == ParseInodeRecord \/ ParseDentryRecord \/ FreeInodeTable

SpecInode == InitInode /\ [][NextInode]_vars

\* the number of dentry records counted with ino as parent
ChildrenCounted(ino) == Cardinality({d \in dentries : d.parent = ino})

\* the number of dentry records counted that point to ino
LinksCounted(ino) == Cardinality({d \in dentries : d.file_id = ino})

\* C7: for every inode at drain time in an accepted volume: if it is a
\* directory, its declared nchildren equals the number of dentries counted
\* with it as parent and nlink == 1; otherwise its declared nlink equals the
\* number of dentries counted that point to it.
C7_DrainedInodeCounts ==
    pc = "inodes_done" =>
        \A ino \in DOMAIN inode_table :
            IF FileType(inode_table[ino].i_mode) = S_IFDIR
            THEN /\ i_nchildren(inode_table[ino]) = ChildrenCounted(ino)
                 /\ inode_table[ino].i_nlink = 1
            ELSE inode_table[ino].i_nlink = LinksCounted(ino)

\* C7, with the links of a directory counted instead of declared: if the
\* inode is a directory, its declared nchildren equals the number of
\* dentries counted with it as parent and the number of dentries counted
\* that point to it is 1; otherwise its declared nlink equals the number of
\* dentries counted that point to it.
C7_DrainedInodeCountsMeasured ==
    pc = "inodes_done" =>
        \A ino \in DOMAIN inode_table :
            IF FileType(inode_table[ino].i_mode) = S_IFDIR
            THEN /\ i_nchildren(inode_table[ino]) = ChildrenCounted(ino)
                 /\ LinksCounted(ino) = 1
            ELSE inode_table[ino].i_nlink = LinksCounted(ino)

\* an accepted volume: a directory with one dentry pointing to it and one
\* child, a file with one dentry pointing to it
C7_AcceptedDirectoryAndFile ==
    /\ pc = "inodes_done"
    /\ \E d \in DOMAIN inode_table, f \in DOMAIN inode_table :
          /\ FileType(inode_table[d].i_mode) = S_IFDIR
          /\ ChildrenCounted(d) = 1
          /\ LinksCounted(d) = 1
          /\ FileType(inode_table[f].i_mode) = S_IFREG
          /\ LinksCounted(f) = 1
          /\ [parent |-> d, name |-> inode_table[f].i_name, file_id |-> f]
                \in dentries

(***************************************************************************)
(* SpecDstream: the records of one data stream of a catalog are handed to  *)
(* parse_dstream_id_record() and parse_extent_record() in the order of     *)
(* their keys, the records that refer to the data stream are counted, and  *)
(* free_dstream_table() checks the data stream.  The volume is not sealed. *)
(* Byte counts are u64 in the program and ByteBits wide here.              *)
(***************************************************************************)
ByteBits == 14

MaxRefs == 2

MaxExtents == 4

APFS_TYPE_DSTREAM_ID == 6

ByteSpace == 2 ^ ByteBits

APFS_FILE_EXTENT_LEN_MASK == 2 ^ (ByteBits - 1) - 1

v_next_obj_id == APFS_MIN_USER_INO_NUM + 3

DstreamIdSamples ==
    {APFS_MIN_USER_INO_NUM - 1, APFS_MIN_USER_INO_NUM, v_next_obj_id}

\* a struct dstream as calloc() leaves it
NewDstream(id) ==
    [d_id |-> id, d_extents |-> <<>>, d_obj_type |-> 0, d_owner |-> 0,
     d_seen |-> FALSE, d_size |-> 0, d_alloced_size |-> 0, d_refcnt |-> 0,
     d_bytes |-> 0, d_sparse_bytes |-> 0, d_references |-> 0,
     d_orphan |-> FALSE, d_inline |-> FALSE, d_xattr |-> FALSE,
     d_logic_start |-> 0]

\* the table holds one data stream at most
get_dstream(id, ds) == IF ds.d_id = id THEN ds ELSE NewDstream(id)

\* a struct extent as calloc() leaves it
NewExtent(bno) ==
    [e_bno |-> bno, e_obj_type |-> 0, e_references |-> 0,
     e_latest_owner |-> 0]

get_extent(bno, table) ==
    IF bno \in DOMAIN table THEN table ELSE (bno :> NewExtent(bno)) @@ table

\* check_dstream_stats() without its last comparison
check_dstream_stats_noalloc(ds) ==
    IF ds.d_references = 0
    THEN Report("Data stream: has no references.")
    ELSE IF ~ds.d_orphan /\ ds.d_bytes < ds.d_size
    THEN Report("Data stream: some extents are missing.")
    ELSE [rpt |-> ""]

check_dstream_stats(ds) ==
    IF ds.d_references = 0
    THEN Report("Data stream: has no references.")
    ELSE IF ds.d_id < APFS_MIN_USER_INO_NUM
    THEN Report("Data stream: invalid or reserved id.")
    ELSE IF ds.d_id >= v_next_obj_id
    THEN Report("Data stream: free id in use.")
    ELSE
    Then(IF ds.d_obj_type = APFS_TYPE_XATTR
         THEN (IF ds.d_seen \/ ds.d_references # 1
               THEN Report("Data stream: xattrs can't be cloned.")
               ELSE IF ds.d_sparse_bytes # 0
               THEN Report("Data stream: xattrs can't have holes.")
               ELSE [rpt |-> ""])
         ELSE (IF ~ds.d_seen
               THEN Report("Data stream: missing reference count.")
               ELSE IF ds.d_refcnt # ds.d_references
               THEN Report("Data stream: bad reference count.")
               ELSE [rpt |-> ""]), LAMBDA a :
        IF ds.d_orphan
        THEN (IF ds.d_size > ds.d_alloced_size
              THEN Report("Orphan dstream: reported sizes make no sense.")
              ELSE [rpt |-> ""])
        ELSE IF ds.d_logic_start # 0
        THEN Report("Data stream: missing leading extents.")
        ELSE IF ds.d_bytes < ds.d_size
        THEN Report("Data stream: some extents are missing.")
        ELSE IF ds.d_bytes # ds.d_alloced_size
        THEN Report("Data stream: wrong allocated space.")
        ELSE [rpt |-> ""])

\* the loop of free_dstream() over the extents from position i on
RECURSIVE count_extents(_, _, _)
count_extents(ds, i, table) ==
    IF i > Len(ds.d_extents) THEN [rpt |-> "", table |-> table]
    ELSE Let(get_extent(ds.d_extents[i], table), LAMBDA t :
         Let(t[ds.d_extents[i]], LAMBDA extent :
             IF extent.e_references # 0
                /\ extent.e_obj_type # ds.d_obj_type
             THEN Report("Physical extent record: owners have inconsistent types.")
             ELSE count_extents(ds, i + 1,
                    [t EXCEPT ![extent.e_bno] =
                       [@ EXCEPT !.e_references =
                                    IF extent.e_references # 0
                                       /\ extent.e_latest_owner = ds.d_owner
                                    THEN @ ELSE @ + 1,
                                 !.e_obj_type = ds.d_obj_type,
                                 !.e_latest_owner = ds.d_owner]])))

free_dstream(ds, table) ==
    IF ds.d_inline THEN [rpt |-> "", table |-> table]
    ELSE Then(count_extents(ds, 1, table), LAMBDA c :
         Then(check_dstream_stats(ds), LAMBDA s :
              [rpt |-> "", table |-> c.table]))

\* the physical extent records of the extent reference tree
ExtentRefs == {[phys_addr |-> 4, blocks |-> 2]}

\* the record of the extent reference tree that holds the block paddr
extentref_lookup(paddr) ==
    CHOOSE e \in ExtentRefs :
        e.phys_addr <= paddr /\ paddr < e.phys_addr + e.blocks

\* the list with paddr in its place, once
RECURSIVE insert_extent(_, _)
insert_extent(extents, paddr) ==
    IF extents = <<>> THEN <<paddr>>
    ELSE IF paddr = Head(extents) THEN extents
    ELSE IF paddr < Head(extents) THEN <<paddr>> \o extents
    ELSE <<Head(extents)>> \o insert_extent(Tail(extents), paddr)

\* the loop of attach_extent_to_dstream() from the block paddr on
RECURSIVE attach_from(_, _, _)
attach_from(paddr, paddr_end, extents) ==
    IF ~(paddr < paddr_end) THEN extents
    ELSE Let(extentref_lookup(paddr), LAMBDA extref :
             attach_from(U64Add(extref.phys_addr, extref.blocks), paddr_end,
                         insert_extent(extents, extref.phys_addr)))

attach_extent_to_dstream(paddr, blk_count, ds) ==
    IF U64Add(paddr, blk_count) < paddr
    THEN Report("Extent record: physical address is too big.")
    ELSE [rpt |-> "",
          ds |-> [ds EXCEPT !.d_extents =
                    attach_from(paddr, U64Add(paddr, blk_count), @)]]

\* the record of the key with the logical address logical_addr, whose value
\* holds len_and_flags and phys_block_num
parse_extent_record(ds, logical_addr, len_and_flags, phys_block_num) ==
    Let(len_and_flags % (APFS_FILE_EXTENT_LEN_MASK + 1), LAMBDA length :
        IF length = 0
        THEN Report("Extent record: length is zero.")
        ELSE IF length % s_blocksize # 0
        THEN Report("Extent record: length isn't multiple of block size.")
        ELSE IF len_and_flags # length
        THEN Report("Extent record: no flags should be set.")
        ELSE
        Let(IF ds.d_bytes = 0 /\ logical_addr # 0
            THEN [ds EXCEPT !.d_logic_start = logical_addr] ELSE ds,
            LAMBDA d :
            IF (d.d_logic_start + d.d_bytes) % ByteSpace # logical_addr
            THEN Report("Data stream: extents are not consecutive.")
            ELSE IF phys_block_num = 0
            THEN [rpt |-> "",
                  ds |-> [d EXCEPT
                            !.d_bytes = (@ + length) % ByteSpace,
                            !.d_sparse_bytes = (@ + length) % ByteSpace]]
            ELSE attach_extent_to_dstream(
                     phys_block_num, length \div s_blocksize,
                     [d EXCEPT !.d_bytes = (@ + length) % ByteSpace])))

parse_dstream_id_record(ds, refcnt) ==
    [ds EXCEPT !.d_seen = TRUE, !.d_refcnt = refcnt]

\* a record that refers to the data stream is counted: an inode with its
\* stream, an orphan inode, an xattr with a stream of its own, or the
\* inline compressed file of a sealed volume
RefKinds == {"inode", "orphan", "xattr", "inline"}

reference_dstream(ds, kind, size, alloced_size) ==
    [ds EXCEPT !.d_references = @ + 1,
               !.d_owner = ds.d_id,
               !.d_obj_type = IF kind = "xattr" THEN APFS_TYPE_XATTR
                              ELSE APFS_TYPE_INODE,
               !.d_xattr = (kind = "xattr"),
               !.d_orphan = (kind = "orphan"),
               !.d_inline = (kind = "inline"),
               !.d_size = size,
               !.d_alloced_size = alloced_size]

SizeSamples == {0, s_blocksize}

LogicalSamples ==
    {k * s_blocksize : k \in 0..(MaxExtents - 1)} \cap 0..(ByteSpace - 1)

LenAndFlagsSamples ==
    {0, s_blocksize, s_blocksize + 1,
     APFS_FILE_EXTENT_LEN_MASK + 1 + s_blocksize}

PhysSamples == {0, 4, 5, AddrSpace - 1}

InitDstream ==
    /\ dstream = NoDstream
    /\ extent_table = <<>>
    /\ tally = [references |-> 0, bytes |-> 0, drained |-> FALSE]
    /\ vsb = NoVolume
    /\ cat_last = NoKey
    /\ inode_table = <<>>
    /\ dentries = {}
    /\ disk = <<>>
    /\ rpt = ""
    /\ pc = "ds_walk"
    /\ IdleNode /\ IdleWalk /\ IdleOmap /\ IdleBmap /\ IdleCsum /\ IdleRun

ReferenceDstream ==
    /\ pc = "ds_walk"
    /\ tally.references < MaxRefs
    /\ \E id \in DstreamIdSamples, kind \in RefKinds,
          size \in SizeSamples, alloced_size \in SizeSamples :
          /\ dstream = NoDstream \/ dstream.d_id = id
          /\ dstream' = reference_dstream(get_dstream(id, dstream), kind,
                                          size, alloced_size)
    /\ tally' = [tally EXCEPT !.references = @ + 1]
    /\ UNCHANGED <<disk, rpt, pc, cat_last, inode_table, dentries,
                   extent_table, vsb,
                   otherThanAudit>>

ParseDstreamIdRecord ==
    /\ pc = "ds_walk"
    /\ \E id \in DstreamIdSamples, refcnt \in 0..MaxRefs :
       \E key \in {[id |-> id, type |-> APFS_TYPE_DSTREAM_ID, number |-> 0,
                    name |-> NoName]} :
          /\ dstream = NoDstream \/ dstream.d_id = id
          /\ keycmp(cat_last, key) < 0
          /\ cat_last' = key
          /\ dstream' = parse_dstream_id_record(get_dstream(id, dstream),
                                                refcnt)
    /\ UNCHANGED <<disk, rpt, pc, inode_table, dentries, extent_table,
                   tally, vsb,
                   otherThanAudit>>

ParseExtentRecord ==
    /\ pc = "ds_walk"
    /\ \E id \in DstreamIdSamples, logical_addr \in LogicalSamples,
          len_and_flags \in LenAndFlagsSamples,
          phys_block_num \in PhysSamples :
       \E key \in {[id |-> id, type |-> APFS_TYPE_FILE_EXTENT,
                    number |-> logical_addr, name |-> NoName]} :
       /\ dstream = NoDstream \/ dstream.d_id = id
       /\ keycmp(cat_last, key) < 0
       /\ \E r \in {parse_extent_record(get_dstream(id, dstream),
                                        logical_addr, len_and_flags,
                                        phys_block_num)} :
          /\ cat_last' = IF Reported(r) THEN cat_last ELSE key
          /\ rpt' = r.rpt
          /\ pc' = IF Reported(r) THEN "exit" ELSE pc
          /\ dstream' = IF Reported(r) THEN dstream ELSE r.ds
          /\ tally' = IF Reported(r) THEN tally
                      ELSE [tally EXCEPT !.bytes =
                              @ + (len_and_flags
                                     % (APFS_FILE_EXTENT_LEN_MASK + 1))]
    /\ UNCHANGED <<disk, inode_table, dentries, extent_table,
                   vsb,
                   otherThanAudit>>

\* the catalog is over; the data stream is kept as it was when it was
\* checked
FreeDstreamTable ==
    /\ pc = "ds_walk"
    /\ dstream # NoDstream
    /\ \E r \in {free_dstream(dstream, extent_table)} :
          /\ rpt' = r.rpt
          /\ pc' = IF Reported(r) THEN "exit" ELSE "dstreams_done"
          /\ extent_table' = IF Reported(r) THEN extent_table ELSE r.table
    /\ tally' = [tally EXCEPT !.drained = TRUE]
    /\ UNCHANGED <<disk, cat_last, inode_table, dentries, dstream,
                   vsb,
                   otherThanAudit>>

NextDstream ==
    \/ ReferenceDstream
    \/ ParseDstreamIdRecord
    \/ ParseExtentRecord
    \/ FreeDstreamTable

SpecDstream == InitDstream /\ [][NextDstream]_vars

\* the data stream was drained and nothing was reported
DstreamAccepted == pc = "dstreams_done"

\* every check that check_dstream_stats() makes of a data stream of no
\* orphan before it compares the bytes with the allocated size passes
EarlierChecksPass ==
    /\ dstream.d_references # 0
    /\ dstream.d_id >= APFS_MIN_USER_INO_NUM
    /\ dstream.d_id < v_next_obj_id
    /\ IF dstream.d_obj_type = APFS_TYPE_XATTR
       THEN ~dstream.d_seen /\ dstream.d_references = 1
            /\ dstream.d_sparse_bytes = 0
       ELSE dstream.d_seen /\ dstream.d_refcnt = dstream.d_references
    /\ dstream.d_logic_start = 0
    /\ dstream.d_bytes >= dstream.d_size

\* C8: for every dstream in an accepted volume: its declared reference
\* count equals the number of references measured during the walk, the sum
\* of its extent lengths in bytes equals its declared alloced_size, and
\* that sum is at least its declared size; a dstream whose extent sum
\* differs from alloced_size ends the run with "Data stream: wrong
\* allocated space."
C8_DstreamAccounting ==
    /\ DstreamAccepted =>
          /\ dstream.d_refcnt = tally.references
          /\ tally.bytes = dstream.d_alloced_size
          /\ tally.bytes >= dstream.d_size
    /\ (tally.drained /\ tally.bytes # dstream.d_alloced_size) =>
          rpt = "Data stream: wrong allocated space."

\* C8, by the kind of the dstream: for every dstream in an accepted volume
\* that does not stand for an inline compressed file: if it belongs to an
\* xattr it has no declared reference count and one reference is measured
\* during the walk, otherwise its declared reference count equals the
\* number of references measured during the walk; unless it belongs to an
\* orphan inode, the sum of its extent lengths in bytes modulo 2^64 equals
\* its declared alloced_size and is at least its declared size; such a
\* dstream of no orphan inode whose extent sum modulo 2^64 differs from
\* alloced_size ends the run with a report, which is "Data stream: wrong
\* allocated space." when every check made before that comparison passes.
C8_DstreamAccountingByKind ==
    /\ (DstreamAccepted /\ ~dstream.d_inline) =>
          /\ IF dstream.d_obj_type = APFS_TYPE_XATTR
             THEN ~dstream.d_seen /\ tally.references = 1
             ELSE dstream.d_seen /\ dstream.d_refcnt = tally.references
          /\ ~dstream.d_orphan =>
                /\ tally.bytes % ByteSpace = dstream.d_alloced_size
                /\ tally.bytes % ByteSpace >= dstream.d_size
    /\ (/\ tally.drained
        /\ ~dstream.d_inline
        /\ ~dstream.d_orphan
        /\ tally.bytes % ByteSpace # dstream.d_alloced_size) =>
          /\ rpt # ""
          /\ EarlierChecksPass => rpt = "Data stream: wrong allocated space."

\* an accepted volume: a dstream of a file with two references and one
\* extent on disk
C8_AcceptedSharedDstream ==
    /\ DstreamAccepted
    /\ dstream.d_obj_type = APFS_TYPE_INODE
    /\ ~dstream.d_orphan /\ ~dstream.d_inline
    /\ tally.references = 2
    /\ tally.bytes = s_blocksize
    /\ dstream.d_extents # <<>>

(***************************************************************************)
(* SpecFormat: mkapfs formats a blank single device (mkapfs/mkapfs.c,      *)
(* mkapfs/spaceman.c) and apfsck parses the main device of the space       *)
(* manager that was written (apfsck/spaceman.c).  Block numbers and counts *)
(* are the real ones: the block size is the default one and a chunk has    *)
(* 32768 blocks.  The object headers of the blocks are left to SpecCsum,   *)
(* and the devices sampled are below the 63883 chunks from which chunk-    *)
(* info address blocks are used.                                           *)
(***************************************************************************)
MKFS_XID == 1

\* sizeof(struct apfs_chunk_info)
chunk_info_size == 32

\* sizeof(struct apfs_chunk_info_block)
cib_size == 40

\* sizeof(struct apfs_cib_addr_block)
cab_size == 40

blocks_per_chunk == 8 * s_blocksize

chunks_per_cib == (s_blocksize - cib_size) \div chunk_info_size

cibs_per_cab == (s_blocksize - cab_size) \div 8

\* the quotient of C, which truncates towards zero
CDiv(n, d) == IF n < 0 THEN -((-n) \div d) ELSE n \div d

cpoint_desc_blocks(block_count) ==
    IF block_count < (512 * 1024) \div 4 THEN 8
    ELSE IF block_count < (1024 * 1024) \div 4 THEN 12
    ELSE IF block_count < (50 * 1024 * 1024) \div 4
    THEN LET off_512M == (block_count - (1024 * 1024) \div 4)
                             \div ((512 * 1024) \div 4)
         IN  20 + (60 * off_512M) \div 23
    ELSE 280

cpoint_data_blocks(block_count) ==
    IF block_count < 4545 THEN 52
    ELSE IF block_count < 13633 THEN 124
    ELSE IF block_count < 36353
    THEN 160 + 36 * ((block_count - 13633) \div 4544)
    ELSE IF block_count < 131777
    THEN 308 + 4 * ((block_count - 36353) \div 4544)
    ELSE IF block_count < 262144
    THEN 648 + 4 * ((block_count - 131777) \div 4544)
    ELSE IF block_count = 262144 THEN 992
    ELSE IF block_count < 1048576
    THEN LET off_512M == (block_count - 262144) \div 131072
         IN  1248 + 488 * off_512M
             + 4 * CDiv(block_count - (261280 + off_512M * 131776), 2272)
    ELSE IF block_count < 4063232
    THEN 4112 + 256 * ((block_count - 1048576) \div 131072)
    ELSE IF block_count < 13107200
    THEN 10000 + 256 * ((block_count - 4063232) \div 131072)
    ELSE 27672

CPOINT_DESC_BASE == APFS_NX_BLOCK_NUM + 1

CPOINT_DATA_BASE(p) == CPOINT_DESC_BASE + cpoint_desc_blocks(p.block_count)

CPOINT_END(p) == CPOINT_DATA_BASE(p) + cpoint_data_blocks(p.block_count)

IP_BMAP_BASE(p) == CPOINT_END(p) + 10

\* the checks of complete_parameters() on a run without options: the
\* container takes the whole device (the size in bytes is compared as a
\* count of blocks, which the block size divides exactly)
complete_parameters(p) ==
    IF p.main_blkcnt < (512 * 1024) \div s_blocksize
    THEN [fatal |-> "such tiny containers are not supported"]
    ELSE [fatal |-> "", main_blkcnt |-> p.main_blkcnt,
          block_count |-> p.main_blkcnt]

calculate_dev_info(block_count) ==
    LET chunk_count == DIV_ROUND_UP(block_count, blocks_per_chunk)
        cib_count == DIV_ROUND_UP(chunk_count, chunks_per_cib)
        cab_count == DIV_ROUND_UP(cib_count, cibs_per_cab)
    IN  [fatal |-> IF cab_count > 1000 THEN "device is too big" ELSE "",
         block_count |-> block_count, chunk_count |-> chunk_count,
         cib_count |-> cib_count,
         cab_count |-> IF cab_count = 1 THEN 0 ELSE cab_count]

\* sm_info, with the device_info of the main device in its field dev
set_spaceman_info(p) ==
    LET dev == calculate_dev_info(p.main_blkcnt)
        ip_blocks == (dev.chunk_count + dev.cib_count + dev.cab_count) * 3
        ip_bm_size == DIV_ROUND_UP(ip_blocks, blocks_per_chunk)
        ip_bmap_blocks == 16 * ip_bm_size
        ip_base == IP_BMAP_BASE(p) + ip_bmap_blocks
        used_blocks_end == ip_base + ip_blocks
        used_chunks_end == DIV_ROUND_UP(used_blocks_end, blocks_per_chunk)
        first_cib == ip_base + used_chunks_end
    IN  [fatal |-> IF dev.fatal # "" THEN dev.fatal
                   ELSE IF ip_blocks > p.main_blkcnt \div 2
                   THEN "internal pool too big for the main device"
                   ELSE "",
         ip_blocks |-> ip_blocks, ip_bm_size |-> ip_bm_size,
         ip_bmap_blocks |-> ip_bmap_blocks, ip_base |-> ip_base,
         dev |-> [block_count |-> dev.block_count,
                  chunk_count |-> dev.chunk_count,
                  cib_count |-> dev.cib_count,
                  cab_count |-> dev.cab_count,
                  used_blocks_end |-> used_blocks_end,
                  used_chunks_end |-> used_chunks_end,
                  first_chunk_bmap |-> ip_base,
                  first_cib |-> first_cib,
                  first_cab |-> first_cib + dev.cib_count]]

\* blocks_per_chunk() - sm_info.ip_base is a difference of unsigned numbers:
\* below zero it is a huge number and the minimum is ip_blocks
count_used_blocks_in_chunk(p, info, chunkno) ==
    LET first_chunk_ip_blocks ==
            IF info.ip_base > blocks_per_chunk
               \/ info.ip_blocks < blocks_per_chunk - info.ip_base
            THEN info.ip_blocks
            ELSE blocks_per_chunk - info.ip_base
    IN  IF chunkno >= info.dev.used_chunks_end THEN 0
        ELSE IF info.dev.used_blocks_end = 1 THEN 1
        ELSE IF chunkno = 0
        THEN 1 + cpoint_desc_blocks(p.block_count)
             + cpoint_data_blocks(p.block_count) + 2 + 6
             + info.ip_bmap_blocks + first_chunk_ip_blocks
        ELSE IF chunkno # info.dev.used_chunks_end - 1
        THEN blocks_per_chunk
        ELSE (info.ip_blocks - first_chunk_ip_blocks) % blocks_per_chunk

RECURSIVE count_used_blocks_from(_, _, _)
count_used_blocks_from(p, info, chunkno) ==
    IF chunkno >= info.dev.used_chunks_end THEN 0
    ELSE count_used_blocks_in_chunk(p, info, chunkno)
         + count_used_blocks_from(p, info, chunkno + 1)

count_used_blocks(p, info) == count_used_blocks_from(p, info, 0)

\* the blocks paddr .. paddr + length - 1, as bmap_mark_as_used() marks them
MarkedRange(paddr, length) == paddr..(paddr + length - 1)

\* the bits that are 1 in the used_chunks_end blocks of the bitmap
make_main_alloc_bitmap(p, info) ==
    MarkedRange(0, 1)
    \cup MarkedRange(CPOINT_DESC_BASE, cpoint_desc_blocks(p.block_count))
    \cup MarkedRange(CPOINT_DATA_BASE(p), cpoint_data_blocks(p.block_count))
    \cup MarkedRange(CPOINT_END(p), 2)
    \cup MarkedRange(CPOINT_END(p) + 2, 6)
    \cup MarkedRange(IP_BMAP_BASE(p), info.ip_bmap_blocks)
    \cup MarkedRange(info.ip_base, info.ip_blocks)

\* the chunk-info structure written for the chunk that begins at start
make_chunk_info(p, info, start) ==
    LET remaining_blocks == info.dev.block_count - start
        chunkno == start \div blocks_per_chunk
        block_count == IF remaining_blocks < blocks_per_chunk
                       THEN remaining_blocks ELSE blocks_per_chunk
    IN  [ci_xid |-> MKFS_XID, ci_addr |-> start,
         ci_bitmap_addr |-> IF start < info.dev.used_blocks_end
                            THEN info.dev.first_chunk_bmap + chunkno ELSE 0,
         ci_block_count |-> block_count,
         ci_free_count |->
            block_count - count_used_blocks_in_chunk(p, info, chunkno)]

\* the loop of make_chunk_info_block(): every chunk but the final one of
\* the device has blocks_per_chunk() blocks, so entry i begins i chunks after
\* start, and the loop ends with the block or with the device
make_chunk_infos(p, info, start) ==
    LET left == DIV_ROUND_UP(info.dev.block_count - start, blocks_per_chunk)
        n == IF left < chunks_per_cib THEN left ELSE chunks_per_cib
    IN  [i \in 1..n |->
            make_chunk_info(p, info, start + (i - 1) * blocks_per_chunk)]

make_chunk_info_block(p, info, index, start) ==
    LET chunks == make_chunk_infos(p, info, start)
    IN  [cib_index |-> index, cib_chunk_info_count |-> Len(chunks),
         cib_chunk_info |-> chunks]

\* the space manager and the blocks of the internal pool that describe the
\* main device: make_spaceman() with make_single_device(),
\* make_internal_pool() and make_main_alloc_bitmap()
make_spaceman(p, info) ==
    LET dev == info.dev
        bmap == make_main_alloc_bitmap(p, info)
        cibs == {dev.first_cib + i : i \in 0..(dev.cib_count - 1)}
        bmaps == {dev.first_chunk_bmap + c :
                     c \in 0..(dev.used_chunks_end - 1)}
    IN  [nx_block_count |-> p.block_count,
         sm |-> [sm_blocks_per_chunk |-> blocks_per_chunk,
                 sm_chunks_per_cib |-> chunks_per_cib,
                 sm_cibs_per_cab |-> cibs_per_cab,
                 sm_ip_block_count |-> info.ip_blocks,
                 sm_ip_base |-> info.ip_base,
                 sm_dev |-> [sm_block_count |-> dev.block_count,
                             sm_chunk_count |-> dev.chunk_count,
                             sm_cib_count |-> dev.cib_count,
                             sm_cab_count |-> dev.cab_count,
                             sm_free_count |-> dev.block_count
                                               - count_used_blocks(p, info)],
                 cib_addr |-> [i \in 0..(dev.cib_count - 1) |->
                                  dev.first_cib + i]],
         blocks |-> [bno \in cibs \cup bmaps |->
                       IF bno \in cibs
                       THEN make_chunk_info_block(p, info,
                                bno - dev.first_cib,
                                (bno - dev.first_cib) * chunks_per_cib
                                    * blocks_per_chunk)
                       ELSE LET base == (bno - dev.first_chunk_bmap)
                                            * blocks_per_chunk
                            IN  {b - base : b \in
                                    bmap \cap (base..(base + blocks_per_chunk
                                                      - 1))}]]

\* the bits that are 0 among the blks first ones of a bitmap block that has
\* no bit set past them
count_chunk_free(bmap, blks) == blks - Cardinality(bmap)

\* g is the struct spaceman in memory; the result carries the bits of the
\* bitmap block of the chunk and the bitmap of the internal pool
read_chunk_bitmap(image, g, ip_bitmap, addr, bmap) ==
    IF addr % g.sm_blocks_per_chunk # 0
    THEN Report("Chunk-info: chunk address isn't multiple of size.")
    ELSE IF addr >= image.nx_block_count
    THEN Report("Chunk-info: chunk address is out of bounds.")
    ELSE IF bmap = 0
    THEN [rpt |-> "", bitmap |-> {}, ip_bitmap |-> ip_bitmap]
    ELSE IF bmap < g.sm_ip_base \/ bmap >= g.sm_ip_base + g.sm_ip_block_count
    THEN Report("Out-of-range ip block number.")
    ELSE IF bmap - g.sm_ip_base \in ip_bitmap
    THEN Report("A block is used twice.")
    ELSE [rpt |-> "",
          bitmap |-> IF bmap \in DOMAIN image.blocks
                     THEN image.blocks[bmap] ELSE {},
          ip_bitmap |-> ip_bitmap \cup {bmap - g.sm_ip_base}]

\* dev carries dev->sm_blocks, dev->sm_free and dev->sm_bitmap, the bitmap
\* of the internal pool and the expected first block of the chunk
parse_chunk_info(image, g, dev, chunk, is_last) ==
    IF chunk.ci_block_count = 0 THEN Report("Chunk-info: has no blocks.")
    ELSE IF chunk.ci_block_count > g.sm_blocks_per_chunk
    THEN Report("Chunk-info: too many blocks.")
    ELSE IF ~is_last /\ chunk.ci_block_count # g.sm_blocks_per_chunk
    THEN Report("Chunk-info: too few blocks.")
    ELSE IF chunk.ci_addr # dev.start
    THEN Report("Chunk-info block: chunks are not consecutive.")
    ELSE Then(read_chunk_bitmap(image, g, dev.ip_bitmap, dev.start,
                                chunk.ci_bitmap_addr), LAMBDA r :
         IF chunk.ci_free_count
            # count_chunk_free(r.bitmap, chunk.ci_block_count)
         THEN Report("Chunk-info: wrong count of free blocks.")
         ELSE IF chunk.ci_xid = 0
         THEN Report("Chunk-info: bad transaction id.")
         ELSE [rpt |-> "",
               sm_chunks |-> dev.sm_chunks,
               sm_blocks |-> dev.sm_blocks + chunk.ci_block_count,
               sm_free |-> dev.sm_free + chunk.ci_free_count,
               sm_bitmap |-> dev.sm_bitmap
                             \cup {dev.start + b : b \in r.bitmap},
               ip_bitmap |-> r.ip_bitmap,
               start |-> dev.start + chunk.ci_block_count])

\* the loop of parse_chunk_info_block() over the entries lo .. hi, in their
\* order: the first half, then the second half from where the first ended
RECURSIVE parse_chunk_infos(_, _, _, _, _, _, _)
parse_chunk_infos(image, g, dev, cib, last_cib, lo, hi) ==
    IF lo = hi
    THEN parse_chunk_info(image, g, dev, cib.cib_chunk_info[lo],
                          last_cib /\ lo = cib.cib_chunk_info_count)
    ELSE Then(parse_chunk_infos(image, g, dev, cib, last_cib, lo,
                                (lo + hi) \div 2),
              LAMBDA r : parse_chunk_infos(image, g, r, cib, last_cib,
                                           (lo + hi) \div 2 + 1, hi))

parse_chunk_info_block(image, g, dev, bno, index) ==
    LET cib == image.blocks[bno]
        last_cib == index = dev.sm_cib_count - 1
    IN  IF cib.cib_index # index
        THEN Report("Chunk-info block: wrong index.")
        ELSE IF cib.cib_chunk_info_count = 0
        THEN Report("Chunk-info block: has no chunks.")
        ELSE IF cib.cib_chunk_info_count > g.sm_chunks_per_cib
        THEN Report("Chunk-info block: too many chunks.")
        ELSE IF ~last_cib /\ cib.cib_chunk_info_count # g.sm_chunks_per_cib
        THEN Report("Chunk-info block: too few chunks.")
        ELSE parse_chunk_infos(image, g,
                 [rpt |-> "",
                  sm_chunks |-> dev.sm_chunks + cib.cib_chunk_info_count,
                  sm_blocks |-> dev.sm_blocks, sm_free |-> dev.sm_free,
                  sm_bitmap |-> dev.sm_bitmap, ip_bitmap |-> dev.ip_bitmap,
                  start |-> dev.start],
                 cib, last_cib, 1, cib.cib_chunk_info_count)

parse_spaceman_chunk_counts(raw) ==
    IF raw.sm_blocks_per_chunk # 8 * s_blocksize
    THEN Report("Space manager: wrong count of blocks per chunk.")
    ELSE IF raw.sm_chunks_per_cib
            # (s_blocksize - cib_size) \div chunk_info_size
    THEN Report("Space manager: wrong count of chunks per cib.")
    ELSE IF raw.sm_cibs_per_cab # (s_blocksize - cab_size) \div 8
    THEN Report("Space manager: wrong count of cibs per cab.")
    ELSE [rpt |-> ""]

\* the checks of parse_spaceman_device() on the counts of the device
spaceman_device_counts(rawdev, g, max_blkcnt) ==
    LET cab_count == DIV_ROUND_UP(rawdev.sm_cib_count, g.sm_cibs_per_cab)
    IN  IF rawdev.sm_block_count > max_blkcnt
        THEN Report("Spaceman device: block count too big for device.")
        ELSE IF rawdev.sm_chunk_count
                # DIV_ROUND_UP(rawdev.sm_block_count, g.sm_blocks_per_chunk)
        THEN Report("Spaceman device: wrong count of chunks.")
        ELSE IF rawdev.sm_cib_count
                # DIV_ROUND_UP(rawdev.sm_chunk_count, g.sm_chunks_per_cib)
        THEN Report("Spaceman device: wrong count of chunk-info blocks.")
        ELSE IF rawdev.sm_cab_count
                # (IF cab_count = 1 THEN 0 ELSE cab_count)
        THEN Report(
               "Spaceman device: wrong count of chunk-info address blocks.")
        ELSE [rpt |-> ""]

\* the checks of parse_spaceman_device() after the chunk-info blocks
spaceman_device_totals(dev) ==
    IF dev.sm_chunk_count # dev.sm_chunks
    THEN Report("Spaceman device: bad total number of chunks.")
    ELSE IF dev.sm_block_count # dev.sm_blocks
    THEN Report("Spaceman device: bad total number of blocks.")
    ELSE IF dev.sm_free_count # dev.sm_free
    THEN Report("Spaceman device: bad total number of free blocks.")
    ELSE [rpt |-> ""]

\* the sizes of the device, in blocks: too small for mkapfs, the smallest
\* accepted, one for each step of the checkpoint areas (256 MiB and 1 GiB
\* among them, and 917504, where the dividend of cpoint_data_blocks() is
\* negative), and sizes whose internal pool ends in the second chunk, in
\* the third, and exactly at the end of the third
DeviceBlockSamples ==
    {64, 128, 4545, 13633, 36353, 65536, 131777, 262144, 524288, 917504,
     1048576, 4063232, 13107200, 1600 * blocks_per_chunk,
     20000 * blocks_per_chunk, 23246 * blocks_per_chunk}

InitFormat ==
    /\ param \in [main_blkcnt : DeviceBlockSamples]
    /\ disk = <<>>
    /\ rpt = ""
    /\ pc = "mkapfs"
    /\ s_main_bitmap = {} /\ s_tier2_bitmap = {} /\ s_ip_bitmap = {}
    /\ sm = NoDev /\ sm_dev = NoDev /\ call = NoCall
    /\ IdleNode /\ IdleWalk /\ IdleOmap /\ IdleCsum /\ IdleAudit /\ IdleRun

\* main() of mkapfs up to the space manager; a fatal error leaves the
\* device blank
MkApfs ==
    /\ pc = "mkapfs"
    /\ \E p \in {complete_parameters(param)} :
          IF p.fatal # ""
          THEN pc' = "mkfs_exit" /\ UNCHANGED <<param, disk>>
          ELSE \E info \in {set_spaceman_info(p)} :
                  IF info.fatal # ""
                  THEN pc' = "mkfs_exit" /\ UNCHANGED <<param, disk>>
                  ELSE /\ param' = [main_blkcnt |-> p.main_blkcnt,
                                    block_count |-> p.block_count]
                       /\ disk' = make_spaceman(p, info)
                       /\ pc' = "apfsck"
    /\ UNCHANGED <<rpt, s_main_bitmap, s_tier2_bitmap, s_ip_bitmap, sm,
                   sm_dev, call, otherThanBmap>>

\* check_spaceman() up to the first chunk-info block of the main device
ParseSpacemanDevice ==
    /\ pc = "apfsck"
    /\ disk.sm.sm_dev.sm_cab_count = 0
    /\ \E g \in {[sm_blocks_per_chunk |-> disk.sm.sm_blocks_per_chunk,
                  sm_chunks_per_cib |-> disk.sm.sm_chunks_per_cib,
                  sm_cibs_per_cab |-> disk.sm.sm_cibs_per_cab,
                  sm_ip_base |-> disk.sm.sm_ip_base,
                  sm_ip_block_count |-> disk.sm.sm_ip_block_count]} :
       \E r \in {Then(parse_spaceman_chunk_counts(disk.sm), LAMBDA a :
                 spaceman_device_counts(disk.sm.sm_dev, g,
                                        param.main_blkcnt))} :
          /\ sm' = g
          /\ sm_dev' = [sm_block_count |-> disk.sm.sm_dev.sm_block_count,
                        sm_chunk_count |-> disk.sm.sm_dev.sm_chunk_count,
                        sm_cib_count |-> disk.sm.sm_dev.sm_cib_count,
                        sm_cab_count |-> disk.sm.sm_dev.sm_cab_count,
                        sm_free_count |-> disk.sm.sm_dev.sm_free_count,
                        sm_chunks |-> 0, sm_blocks |-> 0, sm_free |-> 0,
                        sm_bitmap |-> {}, i |-> 0, start |-> 0]
          /\ rpt' = r.rpt
          /\ pc' = IF Reported(r) THEN "exit" ELSE "cibs"
    /\ UNCHANGED <<param, disk, s_main_bitmap, s_tier2_bitmap, s_ip_bitmap,
                   call, otherThanBmap>>

\* one turn of the loop of parse_spaceman_device() over the chunk-info
\* blocks that the space manager lists
ParseChunkInfoBlock ==
    /\ pc = "cibs"
    /\ sm_dev.i < sm_dev.sm_cib_count
    /\ \E r \in {parse_chunk_info_block(disk, sm,
                    [sm_cib_count |-> sm_dev.sm_cib_count,
                     sm_chunks |-> sm_dev.sm_chunks,
                     sm_blocks |-> sm_dev.sm_blocks,
                     sm_free |-> sm_dev.sm_free,
                     sm_bitmap |-> sm_dev.sm_bitmap,
                     ip_bitmap |-> s_ip_bitmap, start |-> sm_dev.start],
                    disk.sm.cib_addr[sm_dev.i], sm_dev.i)} :
          IF Reported(r)
          THEN /\ rpt' = r.rpt
               /\ pc' = "exit"
               /\ UNCHANGED <<sm_dev, s_ip_bitmap>>
          ELSE /\ sm_dev' = [sm_dev EXCEPT !.sm_chunks = r.sm_chunks,
                                           !.sm_blocks = r.sm_blocks,
                                           !.sm_free = r.sm_free,
                                           !.sm_bitmap = r.sm_bitmap,
                                           !.start = r.start,
                                           !.i = @ + 1]
               /\ s_ip_bitmap' = r.ip_bitmap
               /\ UNCHANGED <<rpt, pc>>
    /\ UNCHANGED <<param, disk, s_main_bitmap, s_tier2_bitmap, sm, call,
                   otherThanBmap>>

\* the end of parse_spaceman_device()
CheckDeviceTotals ==
    /\ pc = "cibs"
    /\ sm_dev.i = sm_dev.sm_cib_count
    /\ \E r \in {spaceman_device_totals(sm_dev)} :
          /\ rpt' = r.rpt
          /\ pc' = IF Reported(r) THEN "exit" ELSE "device_done"
    /\ UNCHANGED <<param, disk, s_main_bitmap, s_tier2_bitmap, s_ip_bitmap,
                   sm, sm_dev, call, otherThanBmap>>

NextFormat ==
    MkApfs \/ ParseSpacemanDevice \/ ParseChunkInfoBlock \/ CheckDeviceTotals

SpecFormat == InitFormat /\ [][NextFormat]_vars

\* C5: every device that mkapfs accepts and formats is then parsed by apfsck
\* with no report: the run of apfsck never ends in exit(1)
C5_FormattedImageAccepted ==
    disk # <<>> => (rpt = "" /\ pc # "exit")

(***************************************************************************)
(* SpecRun: one run of apfsck (apfsck.c).  main() reads the options and    *)
(* opens the device; the checks of parse_filesystem() then meet conditions *)
(* in some order, each handed to report() or to one of report_crash(),     *)
(* report_unknown() and report_weird(); main() returns 0 if none of them   *)
(* has ended the run.                                                      *)
(***************************************************************************)
MaxConditions == 3

OPT_REPORT_CRASH == 1

OPT_REPORT_UNKNOWN == 2

OPT_REPORT_WEIRD == 4

HasOption(opts, opt) == (opts \div opt) % 2 = 1

\* the line of the printf() of report()
report_line(context, message) ==
    IF context = "" THEN message ELSE context \o ": " \o message

\* the outcome of a call that returns to its caller
Returned == [exit |-> Running]

\* a report() that prints its line and returns
report_and_return(context, message) ==
    [exit |-> Running, line |-> report_line(context, message)]

\* a NULL context is the empty string
report(context, message) ==
    [exit |-> 1, line |-> report_line(context, message)]

report_crash(opts, context) ==
    IF HasOption(opts, OPT_REPORT_CRASH)
    THEN report(context, "the filesystem was not unmounted cleanly.")
    ELSE Returned

\* a report of unknown features that does not look at the options
report_unknown_always(opts, feature) == report(feature, "not supported.")

report_unknown(opts, feature) ==
    IF HasOption(opts, OPT_REPORT_UNKNOWN)
    THEN report(feature, "not supported.")
    ELSE Returned

report_weird(opts, context) ==
    IF HasOption(opts, OPT_REPORT_WEIRD)
    THEN report(context, "odd inconsistency (may not be corruption).")
    ELSE Returned

\* the loop of main() over getopt(): the mask of the options, or -1 when an
\* option is not one of "cuw"
getopt_mask(letters) ==
    IF letters \ {"c", "u", "w"} # {} THEN -1
    ELSE (IF "c" \in letters THEN OPT_REPORT_CRASH ELSE 0)
         + (IF "u" \in letters THEN OPT_REPORT_UNKNOWN ELSE 0)
         + (IF "w" \in letters THEN OPT_REPORT_WEIRD ELSE 0)

\* the command lines: any options, and a device that is not named, cannot
\* be opened, or is opened
ArgvSamples ==
    [letters : SUBSET {"c", "u", "w", "x"},
     device : {"none", "unreadable", "image"}]

\* what the checks hand to report(): a context or none, and a message
CorruptionSamples ==
    {[context |-> "Container superblock",
      message |-> "too many blocks for device."],
     [context |-> "", message |-> "A block is used twice."]}

CrashSamples == {"Block zero", "Inode xfield"}

UnknownSamples == {"Fusion drive", "Software encryption"}

WeirdSamples == {"Orphan dstream"}

InitRun ==
    /\ options = 0
    /\ out = <<>>
    /\ status = Running
    /\ occurred = <<>>
    /\ sb = NoSuper /\ cp_info = NoInfo
    /\ disk = <<>>
    /\ rpt = ""
    /\ pc = "main"
    /\ IdleNode /\ IdleWalk /\ IdleOmap /\ IdleBmap /\ IdleCsum /\ IdleAudit

\* main() up to the call of parse_filesystem(); usage() and perror() write
\* to the standard error
Main ==
    /\ pc = "main"
    /\ \E argv \in ArgvSamples :
          IF getopt_mask(argv.letters) = -1 \/ argv.device # "image"
          THEN /\ status' = 1
               /\ pc' = "exited"
               /\ UNCHANGED options
          ELSE /\ options' = getopt_mask(argv.letters)
               /\ pc' = "parse"
               /\ UNCHANGED status
    /\ UNCHANGED <<disk, rpt, out, occurred, sb, cp_info, otherThanRun>>

\* the run after a call r that met the condition c
AfterCall(c, r) ==
    /\ occurred' = Append(occurred, c)
    /\ IF r.exit = Running
       THEN /\ out' = IF "line" \in DOMAIN r THEN Append(out, r.line)
                      ELSE out
            /\ UNCHANGED <<rpt, status, pc>>
       ELSE /\ out' = Append(out, r.line)
            /\ rpt' = r.line
            /\ status' = r.exit
            /\ pc' = "exited"
    /\ UNCHANGED <<disk, options, sb, cp_info, otherThanRun>>

\* a check finds corruption
ReportCorruption ==
    /\ pc = "parse"
    /\ Len(occurred) < MaxConditions
    /\ \E c \in CorruptionSamples :
          AfterCall([kind |-> "report", context |-> c.context,
                     message |-> c.message],
                    report(c.context, c.message))

ReportCrash ==
    /\ pc = "parse"
    /\ Len(occurred) < MaxConditions
    /\ \E context \in CrashSamples :
          AfterCall([kind |-> "crash", context |-> context,
                     message |-> "the filesystem was not unmounted cleanly."],
                    report_crash(options, context))

ReportUnknown ==
    /\ pc = "parse"
    /\ Len(occurred) < MaxConditions
    /\ \E feature \in UnknownSamples :
          AfterCall([kind |-> "unknown", context |-> feature,
                     message |-> "not supported."],
                    report_unknown(options, feature))

ReportWeird ==
    /\ pc = "parse"
    /\ Len(occurred) < MaxConditions
    /\ \E context \in WeirdSamples :
          AfterCall([kind |-> "weird", context |-> context,
                     message |->
                        "odd inconsistency (may not be corruption)."],
                    report_weird(options, context))

\* parse_filesystem() returns and main() returns 0
MainReturn ==
    /\ pc = "parse"
    /\ status' = 0
    /\ pc' = "exited"
    /\ UNCHANGED <<disk, rpt, options, out, occurred, sb, cp_info,
                   otherThanRun>>

NextRun ==
    \/ Main
    \/ ReportCorruption
    \/ ReportCrash
    \/ ReportUnknown
    \/ ReportWeird
    \/ MainReturn

SpecRun == InitRun /\ [][NextRun]_vars

\* the option that makes a condition of this kind a report; 0 for corruption
OptionOf(kind) ==
    CASE kind = "crash" -> OPT_REPORT_CRASH
      [] kind = "unknown" -> OPT_REPORT_UNKNOWN
      [] kind = "weird" -> OPT_REPORT_WEIRD
      [] OTHER -> 0

Reportable(c) == c.kind = "report" \/ HasOption(options, OptionOf(c.kind))

\* C11: a condition that is to be reported is the last one the run meets:
\* its line is the only line printed and the exit status is 1; so at most
\* one line is printed, and the exit status is 0 only if no condition that
\* is to be reported was met
C11_FirstReportEndsRun ==
    /\ Len(out) <= 1
    /\ \A i \in DOMAIN occurred :
          Reportable(occurred[i]) =>
             /\ i = Len(occurred)
             /\ out = <<IF occurred[i].context = "" THEN occurred[i].message
                        ELSE occurred[i].context \o ": "
                             \o occurred[i].message>>
             /\ status = 1
    /\ status = 0 =>
          out = <<>> /\ \A i \in DOMAIN occurred : ~Reportable(occurred[i])

\* a corruption is reported after two conditions that the options silence
C11_ReportAfterSilentConditions ==
    /\ Len(occurred) = 3
    /\ occurred[1].kind = "unknown" /\ occurred[2].kind = "weird"
    /\ occurred[3].kind = "report"
    /\ out = <<"Container superblock: too many blocks for device.">>
    /\ status = 1

\* C12: a crash sign, an unknown feature or a weird condition whose option
\* was not given prints nothing and lets the run go on; with the option its
\* line is the one line printed and the run ends with status 1
C12_OptionalReports ==
    \A i \in DOMAIN occurred :
       occurred[i].kind \in {"crash", "unknown", "weird"} =>
          IF HasOption(options, OptionOf(occurred[i].kind))
          THEN /\ i = Len(occurred)
               /\ out = <<occurred[i].context \o ": " \o occurred[i].message>>
               /\ status = 1
          ELSE i = Len(occurred) => (out = <<>> /\ status # 1)

\* with -c alone an unknown feature is passed over and a crash sign is then
\* reported
C12_SilentThenReported ==
    /\ options = OPT_REPORT_CRASH
    /\ Len(occurred) = 2
    /\ occurred[1].kind = "unknown" /\ occurred[2].kind = "crash"
    /\ out = <<"Block zero: the filesystem was not unmounted cleanly.">>
    /\ status = 1

(***************************************************************************)
(* SpecSuper: parse_filesystem() (super.c) on a container with a ring of   *)
(* checkpoint descriptors.  A block is its magic, its checksum, its type   *)
(* and the words after the checksum; the words of a container superblock   *)
(* are, in the order of struct apfs_nx_superblock: o_oid, o_xid,           *)
(* nx_block_count, nx_next_xid, nx_xp_desc_next, nx_xp_desc_index,         *)
(* nx_xp_desc_len (all below byte 0x3D8), the counters of [0x3D8, 0x4D8),  *)
(* nx_blocked_out_prange.pr_block_count of [0x4D8, 0x4F0), the flags of    *)
(* [0x4F0, 0x4F8) and nx_efi_jumpstart of [0x4F8, 4096).  The container    *)
(* has no volume, no reaper and an empty object map; the space manager of  *)
(* a checkpoint, which read_ephemeral_object() finds through the mappings  *)
(* of the checkpoint, is kept with the superblock of the checkpoint.       *)
(***************************************************************************)
APFS_OBJECT_TYPE_NX_SUPERBLOCK == 1

APFS_OBJECT_TYPE_CHECKPOINT_MAP == 12

\* nx_xp_desc_blocks of block zero
MaxDescBlocks == 5

nx_block_count(raw) == raw.body[3]

nx_next_xid(raw) == raw.body[4]

nx_xp_desc_next(raw) == raw.body[5]

nx_xp_desc_index(raw) == raw.body[6]

nx_xp_desc_len(raw) == raw.body[7]

nx_blocked_out_prange(raw) == raw.body[9]

\* the words of the three ranges that main_super_compare() compares
WordsBelow3D8 == 1..7

WordsBelow4F0 == {9}

WordsFrom4F8 == {11}

\* the words of the two ranges that it leaves out
WordsOfCounters == {8}

WordsOfFlags == {10}

\* memcmp() over some words of two blocks
memcmp(a, b, words) == \E k \in words : a.body[k] # b.body[k]

\* what a call of report(), or of one of its optional kinds, is to the
\* caller: a report that ends the run, or nothing
Exit(r) == IF r.exit = Running THEN [rpt |-> ""] ELSE Report(r.line)

\* a comparison for which every difference it looks at is a crash sign
main_super_compare_crash_only(opts, desc, copy) ==
    IF \/ copy.o_xid # desc.o_xid
       \/ memcmp(desc, copy, WordsBelow3D8)
       \/ memcmp(desc, copy, WordsBelow4F0)
       \/ memcmp(desc, copy, WordsFrom4F8)
    THEN Exit(report_crash(opts, "Block zero"))
    ELSE [rpt |-> ""]

\* the xid is compared first and is a crash sign; desc is the superblock of
\* the last checkpoint parsed, copy is block zero
main_super_compare(opts, desc, copy) ==
    IF copy.o_xid # desc.o_xid THEN Exit(report_crash(opts, "Block zero"))
    ELSE IF \/ memcmp(desc, copy, WordsBelow3D8)
            \/ memcmp(desc, copy, WordsBelow4F0)
            \/ memcmp(desc, copy, WordsFrom4F8)
    THEN Report("Block zero: fields don't match the checkpoint.")
    ELSE [rpt |-> ""]

\* sb after calloc()
FreshSuper ==
    [s_raw |-> NULL, s_xid |-> 0, s_block_count |-> 0, s_main_bitmap |-> {},
     s_data_base |-> 0, s_data_blocks |-> 0, s_cpoint_map_table |-> FALSE,
     s_spaceman |-> [sm_chunks |-> 0, sm_blocks |-> 0, sm_free |-> 0,
                     sm_total_chunk_count |-> 0, sm_total_free_count |-> 0]]

\* g is sb, whose s_raw is the block raw; the device has max_main_blkcnt
\* blocks and there is no tier 2
parse_main_super(g, opts, raw, max_main_blkcnt) ==
    IF g.s_xid # raw.o_xid
    THEN Report("Container superblock: inconsistent xid.")
    ELSE IF nx_block_count(raw) = 0
    THEN Report("Container superblock: reports no block count.")
    ELSE IF nx_block_count(raw) > max_main_blkcnt
    THEN Report("Container superblock: too many blocks for device.")
    ELSE Then(IF nx_blocked_out_prange(raw) # 0
              THEN Exit(report_unknown(opts, "Partition resizing"))
              ELSE [rpt |-> ""], LAMBDA u :
         IF g.s_xid + 1 # nx_next_xid(raw)
         THEN Report("Container superblock: next transaction id is wrong.")
         ELSE [rpt |-> "",
               sb |-> [g EXCEPT !.s_block_count = nx_block_count(raw),
                                !.s_main_bitmap = {0},
                                !.s_data_base = raw.nx_xp_data_base,
                                !.s_data_blocks = raw.nx_xp_data_blocks]])

\* sizeof(struct apfs_checkpoint_map_phys) and the size of one entry of
\* its cpm_map
cpm_header_size == 40

cpoint_map_size == 40

APFS_OBJECT_TYPE_SPACEMAN == 5

\* the table holds m_paddr for the oids it has an entry for; an entry that
\* get_cpoint_map() makes is zeroed
get_cpoint_map(oid, table) ==
    IF oid \in DOMAIN table THEN table[oid] ELSE 0

\* parse_cpoint_map() without the test of the mapping that the table has
\* for the oid
parse_cpoint_map_any_oid(table, info, opts, raw, idx) ==
    IF raw.cpm_paddr = 0
    THEN Report("Checkpoint map: invalid physical address.")
    ELSE IF raw.cpm_paddr # info.data_base + idx
    THEN Report("Chekpoint map: out of order or with holes.")
    ELSE IF raw.cpm_size % s_blocksize # 0
    THEN Report("Checkpoint map: size isn't multiple of block size.")
    ELSE Then(IF /\ raw.cpm_type # APFS_OBJECT_TYPE_SPACEMAN
                 /\ raw.cpm_size # s_blocksize
              THEN Exit(report_unknown(opts,
                        "Large non-spaceman ephemeral objects"))
              ELSE [rpt |-> ""], LAMBDA u :
         IF raw.cpm_pad # 0 THEN Report("Checkpoint map: non-zero padding.")
         ELSE
         Then(IF raw.cpm_fs_oid # 0
              THEN Exit(report_unknown(opts,
                        "Ephemeral object belonging to a volume"))
              ELSE [rpt |-> ""], LAMBDA w :
         LET blkcnt == raw.cpm_size \div s_blocksize
             start_off == (info.data_blocks + idx - info.data_index)
                          % info.data_blocks
         IN  IF \/ start_off >= info.data_len
                \/ start_off + blkcnt > info.data_len
             THEN Report("Checkpoint map: object index outside valid range.")
             ELSE [rpt |-> "",
                   table |-> (raw.cpm_oid :> raw.cpm_paddr) @@ table,
                   idx |-> (idx + blkcnt) % info.data_blocks]))

\* table is sb->s_cpoint_map_table, raw one entry of cpm_map, idx the index
\* in the data area that the mapping is expected at
parse_cpoint_map(table, info, opts, raw, idx) ==
    IF get_cpoint_map(raw.cpm_oid, table) # 0
    THEN Report("Checkpoint maps: two mappings for the same oid.")
    ELSE IF raw.cpm_paddr = 0
    THEN Report("Checkpoint map: invalid physical address.")
    ELSE IF raw.cpm_paddr # info.data_base + idx
    THEN Report("Chekpoint map: out of order or with holes.")
    ELSE IF raw.cpm_size % s_blocksize # 0
    THEN Report("Checkpoint map: size isn't multiple of block size.")
    ELSE Then(IF /\ raw.cpm_type # APFS_OBJECT_TYPE_SPACEMAN
                 /\ raw.cpm_size # s_blocksize
              THEN Exit(report_unknown(opts,
                        "Large non-spaceman ephemeral objects"))
              ELSE [rpt |-> ""], LAMBDA u :
         IF raw.cpm_pad # 0 THEN Report("Checkpoint map: non-zero padding.")
         ELSE
         Then(IF raw.cpm_fs_oid # 0
              THEN Exit(report_unknown(opts,
                        "Ephemeral object belonging to a volume"))
              ELSE [rpt |-> ""], LAMBDA w :
         LET blkcnt == raw.cpm_size \div s_blocksize
             start_off == (info.data_blocks + idx - info.data_index)
                          % info.data_blocks
         IN  IF \/ start_off >= info.data_len
                \/ start_off + blkcnt > info.data_len
             THEN Report("Checkpoint map: object index outside valid range.")
             ELSE [rpt |-> "",
                   table |-> (raw.cpm_oid :> raw.cpm_paddr) @@ table,
                   idx |-> (idx + blkcnt) % info.data_blocks]))

\* the loop of parse_cpoint_map_blocks() over the mappings of one block,
\* from the mapping i on
RECURSIVE parse_cpoint_maps(_, _, _, _, _, _)
parse_cpoint_maps(table, info, opts, maps, i, idx) ==
    IF i > Len(maps) THEN [rpt |-> "", table |-> table, idx |-> idx]
    ELSE Then(parse_cpoint_map(table, info, opts, maps[i], idx), LAMBDA m :
              parse_cpoint_maps(m.table, info, opts, maps, i + 1, m.idx))

\* the loop of parse_cpoint_map_blocks() from the block at index on; s_xid
\* is sb->s_xid, blk_count the blocks parsed so far, table the mappings and
\* obj_idx the index expected of the next one; the test that follows the
\* loop is made where the loop breaks
RECURSIVE parse_cpoint_map_block(_, _, _, _, _, _, _)
parse_cpoint_map_block(s_xid, info, opts, index, blk_count, table, obj_idx) ==
    LET bno == info.desc_base + index
        next == (index + 1) % info.desc_blocks
    IN  Then(read_object_nocheck(bno), LAMBDA o :
        IF o.obj.oid # bno THEN Report("Checkpoint map: wrong object id.")
        ELSE IF disk[bno].o_type # APFS_OBJECT_TYPE_CHECKPOINT_MAP
        THEN Report("Checkpoint map: wrong object type.")
        ELSE IF s_xid # 0 /\ o.obj.xid # s_xid
        THEN Report("Checkpoint map: inconsistent xid.")
        ELSE IF o.obj.xid = 0 THEN Report("Checkpoint map: invalid xid.")
        ELSE IF cpm_header_size + Len(disk[bno].cpm_map) * cpoint_map_size
                > s_blocksize
        THEN Report("Checkpoint maps: won't fit in block.")
        ELSE
        Then(parse_cpoint_maps(table, info, opts, disk[bno].cpm_map, 1,
                               obj_idx), LAMBDA c :
        IF disk[bno].cpm_flags \ {"LAST"} # {}
        THEN Report("Checkpoint map: invalid flag in use.")
        ELSE IF "LAST" \in disk[bno].cpm_flags
        THEN IF c.idx # info.data_next
             THEN Report("Checkpoint maps: overlap or have holes.")
             ELSE [rpt |-> "", s_xid |-> o.obj.xid, index |-> next,
                   blk_count |-> blk_count + 1]
        ELSE IF blk_count + 1 = info.desc_blocks
        THEN Report("Checkpoint: no mapping block marked last.")
        ELSE parse_cpoint_map_block(o.obj.xid, info, opts, next,
                                    blk_count + 1, c.table, c.idx)))

\* the two assertions stand for the abort() of a failed assert()
parse_cpoint_map_blocks(g, info, opts, index) ==
    IF g.s_xid # 0 THEN Report("Assertion `!sb->s_xid' failed.")
    ELSE IF g.s_cpoint_map_table
    THEN Report("Assertion `!sb->s_cpoint_map_table' failed.")
    ELSE parse_cpoint_map_block(g.s_xid, info, opts, index, 0, <<>>,
                                info.data_index)

\* the loop of parse_spaceman_device() over the chunk-info blocks that the
\* space manager lists, from block i on; dev carries dev->sm_chunks,
\* dev->sm_blocks and dev->sm_free
RECURSIVE parse_spaceman_cibs(_, _, _, _, _)
parse_spaceman_cibs(image, g, dev, raw, i) ==
    IF i >= dev.sm_cib_count THEN dev
    ELSE Then(parse_chunk_info_block(image, g, dev, raw.cib_addr[i], i),
              LAMBDA r :
              parse_spaceman_cibs(image, g,
                  [rpt |-> "", sm_cib_count |-> dev.sm_cib_count,
                   sm_chunks |-> r.sm_chunks, sm_blocks |-> r.sm_blocks,
                   sm_free |-> r.sm_free, sm_bitmap |-> r.sm_bitmap,
                   ip_bitmap |-> r.ip_bitmap, start |-> r.start],
                  raw, i + 1))

\* check_spaceman() on the main device of a container without tier 2; g is
\* sb, whose s_spaceman is never cleared: the counts of parse_chunk_info()
\* and parse_chunk_info_block() go on from what g holds
check_spaceman(g, raw, max_main_blkcnt) ==
    LET smg == [sm_blocks_per_chunk |-> raw.sm_blocks_per_chunk,
                sm_chunks_per_cib |-> raw.sm_chunks_per_cib,
                sm_cibs_per_cab |-> raw.sm_cibs_per_cab,
                sm_ip_base |-> raw.sm_ip_base,
                sm_ip_block_count |-> raw.sm_ip_block_count]
        image == [nx_block_count |-> g.s_block_count, blocks |-> raw.blocks]
        acc == g.s_spaceman
    IN  Then(parse_spaceman_chunk_counts(raw), LAMBDA c :
        Then(spaceman_device_counts(raw.sm_dev, smg, max_main_blkcnt),
             LAMBDA d :
        Then(parse_spaceman_cibs(image, smg,
                 [rpt |-> "", sm_cib_count |-> raw.sm_dev.sm_cib_count,
                  sm_chunks |-> acc.sm_chunks, sm_blocks |-> acc.sm_blocks,
                  sm_free |-> acc.sm_free, sm_bitmap |-> {},
                  ip_bitmap |-> {}, start |-> 0], raw, 0), LAMBDA dev :
        Then(spaceman_device_totals(
                 [sm_chunk_count |-> raw.sm_dev.sm_chunk_count,
                  sm_block_count |-> raw.sm_dev.sm_block_count,
                  sm_free_count |-> raw.sm_dev.sm_free_count,
                  sm_chunks |-> dev.sm_chunks, sm_blocks |-> dev.sm_blocks,
                  sm_free |-> dev.sm_free]), LAMBDA t :
        IF g.s_block_count # raw.sm_dev.sm_block_count
        THEN Report("Spaceman devices: wrong block count.")
        ELSE [rpt |-> "",
              sb |-> [g EXCEPT !.s_spaceman =
                        [sm_chunks |-> dev.sm_chunks,
                         sm_blocks |-> dev.sm_blocks,
                         sm_free |-> dev.sm_free,
                         sm_total_chunk_count |->
                             acc.sm_total_chunk_count
                             + raw.sm_dev.sm_chunk_count,
                         sm_total_free_count |->
                             acc.sm_total_free_count
                             + raw.sm_dev.sm_free_count]]]))))

\* the turn without the test of nx_xp_desc_len
parse_checkpoint_any_len(g0, info, index, opts, max_main_blkcnt) ==
    LET g == [g0 EXCEPT !.s_raw = NULL, !.s_xid = 0, !.s_main_bitmap = {}]
        dev == [s_max_main_blkcnt |-> max_main_blkcnt,
                s_max_tier2_blkcnt |-> 0]
    IN  Then(parse_cpoint_map_blocks(g, info, opts, index), LAMBDA m :
        Then(read_object_nocheck(info.desc_base + m.index), LAMBDA o :
        Let(disk[o.val], LAMBDA raw :
        IF raw.o_type # APFS_OBJECT_TYPE_NX_SUPERBLOCK
        THEN Report("Checkpoint superblock: bad object type.")
        ELSE IF raw.nx_magic # APFS_NX_MAGIC
        THEN Report("Checkpoint superblock: wrong magic.")
        ELSE
        Then(parse_main_super([g EXCEPT !.s_xid = m.s_xid, !.s_raw = o.val,
                                        !.s_cpoint_map_table = TRUE],
                              opts, raw, max_main_blkcnt), LAMBDA p :
        Then(container_bmap_mark_as_used(dev, p.sb.s_main_bitmap, {},
                 info.desc_base, info.desc_blocks), LAMBDA a :
        Then(container_bmap_mark_as_used(dev, a.bitmap, {},
                 p.sb.s_data_base, p.sb.s_data_blocks), LAMBDA b :
        Then(check_spaceman([p.sb EXCEPT !.s_main_bitmap = b.bitmap],
                            raw.spaceman, max_main_blkcnt), LAMBDA c :
            [rpt |-> "",
             sb |-> [c.sb EXCEPT !.s_cpoint_map_table = FALSE],
             index |-> (m.index + 1) % info.desc_blocks,
             map_blocks |-> m.blk_count])))))))

\* one turn of the loop of parse_filesystem(): the fields that the loop
\* unsets, the mapping blocks, the superblock of the checkpoint, the areas
\* of the checkpoints in the bitmap, and check_container(), of which the
\* space manager is what this container has
parse_checkpoint(g0, info, index, opts, max_main_blkcnt) ==
    LET g == [g0 EXCEPT !.s_raw = NULL, !.s_xid = 0, !.s_main_bitmap = {}]
        dev == [s_max_main_blkcnt |-> max_main_blkcnt,
                s_max_tier2_blkcnt |-> 0]
    IN  Then(parse_cpoint_map_blocks(g, info, opts, index), LAMBDA m :
        Then(read_object_nocheck(info.desc_base + m.index), LAMBDA o :
        Let(disk[o.val], LAMBDA raw :
        IF raw.o_type # APFS_OBJECT_TYPE_NX_SUPERBLOCK
        THEN Report("Checkpoint superblock: bad object type.")
        ELSE IF raw.nx_magic # APFS_NX_MAGIC
        THEN Report("Checkpoint superblock: wrong magic.")
        ELSE IF nx_xp_desc_len(raw) # m.blk_count + 1
        THEN Report(
          "Checkpoint superblock: wrong checkpoint descriptor block count.")
        ELSE
        Then(parse_main_super([g EXCEPT !.s_xid = m.s_xid, !.s_raw = o.val,
                                        !.s_cpoint_map_table = TRUE],
                              opts, raw, max_main_blkcnt), LAMBDA p :
        Then(container_bmap_mark_as_used(dev, p.sb.s_main_bitmap, {},
                 info.desc_base, info.desc_blocks), LAMBDA a :
        Then(container_bmap_mark_as_used(dev, a.bitmap, {},
                 p.sb.s_data_base, p.sb.s_data_blocks), LAMBDA b :
        Then(check_spaceman([p.sb EXCEPT !.s_main_bitmap = b.bitmap],
                            raw.spaceman, max_main_blkcnt), LAMBDA c :
            [rpt |-> "",
             sb |-> [c.sb EXCEPT !.s_cpoint_map_table = FALSE],
             index |-> (m.index + 1) % info.desc_blocks,
             map_blocks |-> m.blk_count])))))))

\* copy is block zero; latest, the block that read_latest_super() returns,
\* is kept with the fields of struct checkpoint_info
preread_checkpoint_info(copy) ==
    Then(read_latest_super(copy.nx_xp_desc_base, copy.nx_xp_desc_blocks),
         LAMBDA l :
         IF \/ nx_xp_desc_next(disk[l.val]) >= copy.nx_xp_desc_blocks
            \/ nx_xp_desc_index(disk[l.val]) >= copy.nx_xp_desc_blocks
         THEN Report(
           "Checkpoint superblock: out of range checkpoint descriptors.")
         ELSE IF \/ disk[l.val].nx_xp_data_next >= copy.nx_xp_data_blocks
                 \/ disk[l.val].nx_xp_data_index >= copy.nx_xp_data_blocks
         THEN Report("Checkpoint superblock: out of range checkpoint data.")
         ELSE [rpt |-> "",
               info |-> [desc_base |-> copy.nx_xp_desc_base,
                         desc_blocks |-> copy.nx_xp_desc_blocks,
                         desc_next |-> nx_xp_desc_next(disk[l.val]),
                         desc_index |-> nx_xp_desc_index(disk[l.val]),
                         data_base |-> copy.nx_xp_data_base,
                         data_blocks |-> copy.nx_xp_data_blocks,
                         data_next |-> disk[l.val].nx_xp_data_next,
                         data_index |-> disk[l.val].nx_xp_data_index,
                         desc_len |-> nx_xp_desc_len(disk[l.val]),
                         data_len |-> disk[l.val].nx_xp_data_len,
                         latest |-> l.val]])

\* the main device: all the blocks below the tier 2 addresses
SuperDeviceBlocks == Tier2Blkno

\* the checkpoint data area is the block after the descriptor area
DataBase == DescBase + MaxDescBlocks

\* a block of the descriptor area, with a checksum that is right
Raw(magic, type, words, flags, spaceman) ==
    [nx_magic |-> magic, o_type |-> type, o_cksum |-> fletcher64(words),
     o_oid |-> words[1], o_xid |-> words[2], body |-> words,
     cpm_flags |-> flags, cpm_map |-> <<>>, nx_xp_desc_base |-> DescBase,
     nx_xp_desc_blocks |-> MaxDescBlocks, nx_xp_data_base |-> DataBase,
     nx_xp_data_blocks |-> 1, nx_xp_data_next |-> 0, nx_xp_data_index |-> 0,
     nx_xp_data_len |-> 0, spaceman |-> spaceman]

\* word k set to v; the checksum is left as it was
WithWord(raw, k, v) ==
    [raw EXCEPT !.body = [raw.body EXCEPT ![k] = v],
                !.o_oid = IF k = 1 THEN v ELSE @,
                !.o_xid = IF k = 2 THEN v ELSE @]

\* the checksum computed again
Resealed(raw) == [raw EXCEPT !.o_cksum = fletcher64(raw.body)]

\* a space manager whose device is one chunk with every block free
SpacemanOf(xid) ==
    [sm_blocks_per_chunk |-> 8 * s_blocksize,
     sm_chunks_per_cib |-> (s_blocksize - cib_size) \div chunk_info_size,
     sm_cibs_per_cab |-> (s_blocksize - cab_size) \div 8,
     sm_ip_base |-> 0, sm_ip_block_count |-> 0,
     sm_dev |-> [sm_block_count |-> SuperDeviceBlocks, sm_chunk_count |-> 1,
                 sm_cib_count |-> 1, sm_cab_count |-> 0,
                 sm_free_count |-> SuperDeviceBlocks],
     cib_addr |-> [i \in {0} |-> DataBase],
     blocks |-> [b \in {DataBase} |->
                   [cib_index |-> 0, cib_chunk_info_count |-> 1,
                    cib_chunk_info |->
                      <<[ci_xid |-> xid, ci_addr |-> 0,
                         ci_block_count |-> SuperDeviceBlocks,
                         ci_free_count |-> SuperDeviceBlocks,
                         ci_bitmap_addr |-> 0]>>]]]

NoSpaceman == [sm_blocks_per_chunk |-> 0]

\* the superblock of the checkpoint xid, which is a mapping block and the
\* superblock; index and next are the range of the valid checkpoints
SuperOf(xid, index, next, resizing) ==
    Raw(APFS_NX_MAGIC, APFS_OBJECT_TYPE_NX_SUPERBLOCK,
        <<APFS_OID_NX_SUPERBLOCK, xid, SuperDeviceBlocks, xid + 1, next,
          index, 2, 0, resizing, 0, 0>>, {}, SpacemanOf(xid))

MapOf(bno, xid) ==
    Raw(0, APFS_OBJECT_TYPE_CHECKPOINT_MAP,
        <<bno, xid, 0, 0, 0, 0, 0, 0, 0, 0, 0>>, {"LAST"}, NoSpaceman)

Unused == Raw(0, 0, <<0, 0, 0, 0, 0, 0, 0, 0, 0, 0, 0>>, {}, NoSpaceman)

\* the superblock of the latest checkpoint of the valid image: the ring
\* holds the checkpoints 1 and 2, of which those from index on are valid
LatestOf(index, resizing) == SuperOf(2, index, 4, resizing)

\* the descriptor area of the valid image
ValidRing(index, resizing) ==
    [b \in DescBase..(DescBase + MaxDescBlocks - 1) |->
       CASE b = DescBase -> MapOf(b, 1)
         [] b = DescBase + 1 -> SuperOf(1, 0, 2, 0)
         [] b = DescBase + 2 -> MapOf(b, 2)
         [] b = DescBase + 3 -> LatestOf(index, resizing)
         [] OTHER -> Unused]

ValidImage(index, resizing) ==
    [b \in 0..(DescBase + MaxDescBlocks - 1) |->
       IF b = APFS_NX_BLOCK_NUM THEN LatestOf(index, resizing)
       ELSE ValidRing(index, resizing)[b]]

\* the words of a superblock that the samples change
ChangedWords == {3, 4, 8, 9, 10, 11}

\* block zero: the latest superblock, one word of it off by one with the
\* checksum as it was or computed again, or the superblock of the
\* checkpoint before
BlockZeroSamples(latest) ==
    {latest, SuperOf(1, 0, 2, 0)}
    \cup {WithWord(latest, k, latest.body[k] + d) :
            k \in ChangedWords, d \in {1}}
    \cup {Resealed(WithWord(latest, k, latest.body[k] + d)) :
            k \in ChangedWords, d \in {1}}
    \cup {WithWord(latest, 3, latest.body[3] - 1),
          Resealed(WithWord(latest, 3, latest.body[3] - 1))}

\* the block after the two checkpoints: unused, or a superblock of a later
\* transaction that is whole, or has a wrong magic, a wrong checksum or a
\* wrong object id
SpareSamples(latest) ==
    LET later == Resealed(WithWord(WithWord(latest, 2, 3), 4, 4))
    IN  {Unused, later, [later EXCEPT !.nx_magic = 0],
         WithWord(later, 8, 1), Resealed(WithWord(later, 1, 2))}

InitSuper ==
    /\ \E index \in {0, 2}, resizing \in {0, 1} :
       \E zero \in BlockZeroSamples(LatestOf(index, resizing)),
          spare \in SpareSamples(LatestOf(index, resizing)) :
          disk = [ValidImage(index, resizing)
                    EXCEPT ![APFS_NX_BLOCK_NUM] = zero,
                           ![DescBase + 4] = spare]
    /\ options \in {0, OPT_REPORT_CRASH, OPT_REPORT_UNKNOWN}
    /\ out = <<>> /\ status = Running /\ occurred = <<>>
    /\ sb = NoSuper /\ cp_info = NoInfo
    /\ rpt = ""
    /\ pc = "fsck_start"
    /\ s_main_bitmap = {} /\ s_tier2_bitmap = {} /\ s_ip_bitmap = {}
    /\ sm = NoDev /\ sm_dev = NoDev /\ call = NoCall
    /\ param = [main_blkcnt |-> SuperDeviceBlocks]
    /\ IdleNode /\ IdleWalk /\ IdleOmap /\ IdleCsum /\ IdleAudit

superFrame ==
    <<disk, options, out, status, occurred, nodeVars, walkVars, omapVars,
      bmapVars, csumVars, auditVars>>

\* parse_filesystem() up to its loop
ParseFilesystemStart ==
    /\ pc = "fsck_start"
    /\ \E r \in {Then(read_super_copy, LAMBDA c :
                      preread_checkpoint_info(disk[c.val]))} :
          IF Reported(r)
          THEN /\ rpt' = r.rpt
               /\ pc' = "exit"
               /\ UNCHANGED <<sb, cp_info>>
          ELSE /\ sb' = FreshSuper
               /\ cp_info' =
                    [desc_base |-> r.info.desc_base,
                     desc_blocks |-> r.info.desc_blocks,
                     desc_next |-> r.info.desc_next,
                     desc_index |-> r.info.desc_index,
                     data_base |-> r.info.data_base,
                     data_blocks |-> r.info.data_blocks,
                     data_next |-> r.info.data_next,
                     data_index |-> r.info.data_index,
                     desc_len |-> r.info.desc_len,
                     data_len |-> r.info.data_len,
                     latest |-> r.info.latest,
                     index |-> r.info.desc_index,
                     valid_blocks |->
                         (r.info.desc_blocks + r.info.desc_next
                          - r.info.desc_index) % r.info.desc_blocks,
                     turns |-> 0, first |-> r.info.desc_index]
               /\ pc' = "fsck_loop"
               /\ rpt' = ""
    /\ UNCHANGED superFrame

\* one turn of the loop of parse_filesystem(); turns and first say how many
\* turns were taken and where the last one began
ParseCheckpoint ==
    /\ pc = "fsck_loop"
    /\ cp_info.valid_blocks > 0
    /\ \E r \in {parse_checkpoint(sb, cp_info, cp_info.index, options,
                                  param.main_blkcnt)} :
          IF Reported(r)
          THEN /\ rpt' = r.rpt
               /\ pc' = "exit"
               /\ cp_info' = [cp_info EXCEPT !.turns = @ + 1,
                                             !.first = cp_info.index]
               /\ UNCHANGED sb
          ELSE /\ sb' = r.sb
               /\ cp_info' =
                    [cp_info EXCEPT !.index = r.index,
                                    !.valid_blocks = @ - r.map_blocks - 1,
                                    !.turns = @ + 1,
                                    !.first = cp_info.index]
               /\ UNCHANGED <<rpt, pc>>
    /\ UNCHANGED superFrame

\* the end of parse_filesystem() without the test of the blocks left
ParseFilesystemEnd_any_count ==
    /\ pc = "fsck_loop"
    /\ cp_info.valid_blocks <= 0
    /\ \E r \in {IF sb.s_raw = NULL
                 THEN Report(
                   "Checkpoint descriptor area: no valid superblocks.")
                 ELSE main_super_compare(options, disk[sb.s_raw],
                                         disk[APFS_NX_BLOCK_NUM])} :
          /\ rpt' = r.rpt
          /\ pc' = IF Reported(r) THEN "exit" ELSE "fsck_done"
    /\ UNCHANGED <<sb, cp_info>>
    /\ UNCHANGED superFrame

\* parse_filesystem() after its loop
ParseFilesystemEnd ==
    /\ pc = "fsck_loop"
    /\ cp_info.valid_blocks <= 0
    /\ \E r \in {IF cp_info.valid_blocks # 0
                 THEN Report(
                   "Block zero: bad index for checkpoint descriptors.")
                 ELSE IF sb.s_raw = NULL
                 THEN Report(
                   "Checkpoint descriptor area: no valid superblocks.")
                 ELSE main_super_compare(options, disk[sb.s_raw],
                                         disk[APFS_NX_BLOCK_NUM])} :
          /\ rpt' = r.rpt
          /\ pc' = IF Reported(r) THEN "exit" ELSE "fsck_done"
    /\ UNCHANGED <<sb, cp_info>>
    /\ UNCHANGED superFrame

NextSuper == ParseFilesystemStart \/ ParseCheckpoint \/ ParseFilesystemEnd

SpecSuper == InitSuper /\ [][NextSuper]_vars

\* the run of parse_filesystem() is over
SuperRunOver == pc \in {"exit", "fsck_done"}

\* the image is the valid one but for nx_block_count of block zero, which
\* is one less; no other byte of block zero, its checksum among them, and
\* no other block was changed
C13_BlockCountDecremented ==
    \E index \in {0, 2}, resizing \in {0, 1} :
       disk = [ValidImage(index, resizing)
                 EXCEPT ![APFS_NX_BLOCK_NUM] =
                    WithWord(LatestOf(index, resizing), 3,
                             SuperDeviceBlocks - 1)]

\* C13 as stated: on an otherwise valid image whose block zero has
\* nx_block_count decremented by 1, the single report of the checker is
\* "Container superblock: too many blocks for device."
C13_TooManyBlocksReported ==
    (C13_BlockCountDecremented /\ SuperRunOver) =>
       rpt = "Container superblock: too many blocks for device."

\* C13: on an otherwise valid image whose block zero has nx_block_count
\* decremented by 1, the single report of the checker is "Block zero: bad
\* checksum.": the run ends in read_super_copy(), before the descriptor
\* area is read
C13_BadChecksumReported ==
    (C13_BlockCountDecremented /\ pc # "fsck_start") =>
       /\ pc = "exit"
       /\ rpt = "Block zero: bad checksum."
       /\ cp_info = NoInfo /\ sb = NoSuper

\* the run on such an image has ended with the report, with no option given
C13_DecrementedImageChecked ==
    /\ C13_BlockCountDecremented
    /\ options = 0
    /\ pc = "exit"
    /\ rpt = "Block zero: bad checksum."

\* the blocks of the descriptor area that are whole superblocks
ValidSupers ==
    {b \in DescBase..(DescBase + MaxDescBlocks - 1) :
        /\ disk[b].nx_magic = APFS_NX_MAGIC
        /\ disk[b].o_cksum = fletcher64(disk[b].body)
        /\ disk[b].o_oid = APFS_OID_NX_SUPERBLOCK}

\* C17: the superblock that read_latest_super() selects from the
\* descriptor area has a valid magic, checksum and object id, and no block
\* of the area with all three valid has a greater xid
C17_LatestIsGreatestValid ==
    cp_info # NoInfo =>
       /\ cp_info.latest \in ValidSupers
       /\ \A b \in ValidSupers : disk[b].o_xid <= disk[cp_info.latest].o_xid

\* main_super_compare() was called: the loop ended with no report and with
\* a superblock
Compared ==
    /\ SuperRunOver
    /\ cp_info # NoInfo
    /\ cp_info.valid_blocks = 0
    /\ sb.s_raw # NULL

\* the words after the checksum in which block zero is not the superblock
\* of the last checkpoint parsed
DifferingWords ==
    {k \in 1..11 : disk[sb.s_raw].body[k] # disk[APFS_NX_BLOCK_NUM].body[k]}

\* the difference is read as a crash sign: a report with -c, else nothing
CrashMarker ==
    IF HasOption(options, OPT_REPORT_CRASH)
    THEN /\ pc = "exit"
         /\ rpt = "Block zero: the filesystem was not unmounted cleanly."
    ELSE pc = "fsck_done" /\ rpt = ""

\* C18 as stated: differences of block zero from the checkpoint superblock
\* that are confined to the counters and the flags are accepted; any other
\* difference is a crash marker, silent unless -c is given, and never a
\* corruption report
C18_OtherDifferenceIsCrashMarker ==
    Compared =>
       IF DifferingWords \subseteq (WordsOfCounters \cup WordsOfFlags)
       THEN pc = "fsck_done" /\ rpt = ""
       ELSE CrashMarker

\* C18: differences confined to the counters and the flags are accepted; a
\* difference of the transaction id is a crash marker, silent unless -c is
\* given; any other difference, the transaction ids being equal, is the
\* corruption report "Block zero: fields don't match the checkpoint."
C18_CompareVerdict ==
    Compared =>
       IF 2 \in DifferingWords THEN CrashMarker
       ELSE IF DifferingWords \subseteq (WordsOfCounters \cup WordsOfFlags)
       THEN pc = "fsck_done" /\ rpt = ""
       ELSE /\ pc = "exit"
            /\ rpt = "Block zero: fields don't match the checkpoint."

\* block zero has the xid of the checkpoint and another nx_block_count,
\* under a checksum that is right: the run ends with the corruption report
C18_FieldMismatchReported ==
    /\ Compared
    /\ DifferingWords = {3}
    /\ options = OPT_REPORT_CRASH
    /\ pc = "exit"
    /\ rpt = "Block zero: fields don't match the checkpoint."

\* a turn of the loop of parse_filesystem() has just been taken
TurnTaken ==
    /\ cp_info # NoInfo
    /\ cp_info.turns >= 1
    /\ pc = "fsck_loop" \/ (pc = "exit" /\ cp_info.valid_blocks > 0)

\* C19: the verdict on each checkpoint of the descriptor area is the one
\* that the same checkpoint gets from a freshly initialised sb: nothing
\* recorded for an earlier checkpoint has a part in it
C19_CheckpointsStartFresh ==
    TurnTaken =>
       rpt = parse_checkpoint(FreshSuper, cp_info, cp_info.first, options,
                              param.main_blkcnt).rpt

(***************************************************************************)
(* SpecQuery: node_query() on one node, and the calls of btree_query() on  *)
(* one multiple query until it fails (btree.c).  The tree is a catalog     *)
(* whose records are inodes and file extents in ascending order; it is one *)
(* root leaf, or a root over up to MaxQueryLeaves leaves, where the key of *)
(* a record of the root is the first key of its leaf.  The object map of   *)
(* the catalog is one root leaf.                                           *)
(***************************************************************************)
MaxQueryLeaves == 3

QueryBlocks == 1..(MaxQueryLeaves + 1)

QueryOmapBlock == MaxQueryLeaves + 2

CatKey(id, type, number) ==
    [id |-> id, type |-> type, number |-> number, name |-> NoName]

\* the keys of the records, in ascending order
QueryKeyPool ==
    <<CatKey(1, APFS_TYPE_INODE, 0), CatKey(1, APFS_TYPE_FILE_EXTENT, 0),
      CatKey(1, APFS_TYPE_FILE_EXTENT, 1), CatKey(1, APFS_TYPE_FILE_EXTENT, 2),
      CatKey(2, APFS_TYPE_INODE, 0), CatKey(2, APFS_TYPE_FILE_EXTENT, 0)>>

\* the keys of the pool whose places are in the set picked, in their order
RECURSIVE PickedKeys(_, _)
PickedKeys(picked, i) ==
    IF i > Len(QueryKeyPool) THEN <<>>
    ELSE (IF i \in picked THEN <<QueryKeyPool[i]>> ELSE <<>>)
         \o PickedKeys(picked, i + 1)

\* a node of the catalog in block b
QueryNode(b, leaf, keys, vals) ==
    MkNode(b, CatOid(b), FlagsOf(b, leaf, FALSE),
           [i \in 1..Len(keys) |->
              [k_off |-> 32 * (i - 1), k_len |-> 16,
               v_off |-> 16 * i, v_len |-> IF leaf THEN 16 ELSE 8,
               key |-> keys[i], val |-> vals[i]]])

\* the object map of the catalog maps CatOid(b) to b
QueryOmapRoot ==
    MkNode(QueryOmapBlock, QueryOmapBlock, 7,
           [i \in QueryBlocks |->
              [k_off |-> 16 * (i - 1), k_len |-> 16,
               v_off |-> 16 * i, v_len |-> 16,
               key |-> [id |-> CatOid(i), xid |-> 1],
               val |-> [ov_paddr |-> i]]])

\* the catalog of the keys s whose leaves end after the records of ends
QueryImage(s, ends) ==
    LET first(l) == IF l = 1 THEN 1 ELSE ends[l - 1] + 1
        zeros(n) == [i \in 1..n |-> 0]
    IN  IF Len(ends) = 1
        THEN (RootBlock :> QueryNode(RootBlock, TRUE, s, zeros(Len(s))))
             @@ (QueryOmapBlock :> QueryOmapRoot)
        ELSE [b \in (1..(Len(ends) + 1)) \cup {QueryOmapBlock} |->
                IF b = QueryOmapBlock THEN QueryOmapRoot
                ELSE IF b = RootBlock
                THEN QueryNode(b, FALSE,
                               [l \in 1..Len(ends) |-> s[first(l)]],
                               [l \in 1..Len(ends) |-> CatOid(l + 1)])
                ELSE QueryNode(b, TRUE,
                               SubSeq(s, first(b - 1), ends[b - 1]),
                               zeros(ends[b - 1] - first(b - 1) + 1))]

\* the places where the leaves of n records can end
LeafEnds(n) ==
    {e \in UNION {[1..l -> 1..n] : l \in 1..MaxQueryLeaves} :
        /\ e[Len(e)] = n
        /\ \A l \in 1..(Len(e) - 1) : e[l] < e[l + 1]}

QueryImages ==
    UNION {{QueryImage(PickedKeys(picked, 1), ends)
              : ends \in LeafEnds(Cardinality(picked))}
             : picked \in (SUBSET (1..Len(QueryKeyPool))) \ {{}}}

\* sb->s_omap_root
QueryOmapRootNode ==
    [flags |-> 7, records |-> QueryOmapRoot.btn_nkeys,
     key |-> BTREE_NODE_PHYS_SIZE + QueryOmapRoot.table_off
             + QueryOmapRoot.table_len,
     block_nr |-> QueryOmapBlock, oid |-> QueryOmapBlock]

\* the keys searched for: those of the pool and one past them
SearchKeys ==
    {QueryKeyPool[i] : i \in 1..Len(QueryKeyPool)}
    \cup {CatKey(1, APFS_TYPE_FILE_EXTENT, 3), CatKey(0, APFS_TYPE_INODE, 0),
          CatKey(3, APFS_TYPE_INODE, 0)}

NoRecords == [tool |-> "btree_query", records |-> <<>>]

InitQuery ==
    /\ disk \in QueryImages
    /\ rpt = ""
    /\ pc = "query_start"
    /\ lookup = NoLookup /\ query = NoQuery
    /\ IdleNode /\ IdleWalk /\ IdleBmap /\ IdleCsum /\ IdleAudit /\ IdleRun

queryFrame ==
    <<disk, nodeVars, walkVars, bmapVars, csumVars, auditVars, runVars>>

\* one call of node_query() for a single record, on a node of the catalog
NodeQuery ==
    /\ pc = "query_start"
    /\ \E b \in DOMAIN disk \ {QueryOmapBlock}, key \in SearchKeys,
          exact \in BOOLEAN :
       \E n \in {read_node(b, FALSE)} :
       \E r \in {node_query([alloc_query(n.node, NoQuery) EXCEPT
                    !.key = key,
                    !.flags = {"QUERY_CAT"}
                              \cup (IF exact THEN {"QUERY_EXACT"}
                                    ELSE {})])} :
          /\ rpt' = r.rpt
          /\ pc' = IF Reported(r) THEN "exit" ELSE "node_query_done"
          /\ query' = IF Reported(r) THEN query ELSE r.query
          /\ lookup' = IF Reported(r) THEN lookup
                       ELSE [tool |-> "node_query", err |-> r.err]
    /\ UNCHANGED queryFrame

\* the caller sets up a multiple query for the records of (id, type)
AllocQuery ==
    /\ pc = "query_start"
    /\ \E key \in {k \in SearchKeys : k.number = 0}, exact \in BOOLEAN :
       \E n \in {read_node(RootBlock, FALSE)} :
          /\ query' = [alloc_query(n.node, NoQuery) EXCEPT
                          !.key = key,
                          !.flags = {"QUERY_CAT", "QUERY_MULTIPLE"}
                                    \cup (IF exact THEN {"QUERY_EXACT"}
                                          ELSE {})]
          /\ lookup' = NoRecords
          /\ pc' = "query_next"
    /\ UNCHANGED <<rpt, queryFrame>>

\* one call of btree_query() on the multiple query; the caller stops at the
\* first call that fails
BtreeQuery ==
    /\ pc = "query_next"
    /\ \E r \in {btree_query(query, QueryOmapRootNode, FALSE)} :
          IF Reported(r)
          THEN /\ rpt' = r.rpt
               /\ pc' = "exit"
               /\ UNCHANGED <<query, lookup>>
          ELSE /\ query' = r.query
               /\ lookup' =
                    IF r.err # 0 THEN lookup
                    ELSE [lookup EXCEPT !.records =
                            Append(@, [block_nr |-> r.query.node.block_nr,
                                       index |-> r.query.index])]
               /\ pc' = IF r.err # 0 THEN "query_done" ELSE "query_next"
               /\ UNCHANGED rpt
    /\ UNCHANGED queryFrame

NextQuery == NodeQuery \/ AllocQuery \/ BtreeQuery

SpecQuery == InitQuery /\ [][NextQuery]_vars

\* the key of record i of the node in block b
KeyAt(b, i) == disk[b].toc[i + 1].key

\* the records of the node of the query whose key is not after the key
\* searched for
NotAfter ==
    {i \in 0..(query.node.records - 1) :
        keycmp(KeyAt(query.node.block_nr, i), query.key) <= 0}

\* C15: a query for a single record on a node whose keys strictly ascend
\* ends at the greatest index whose key is <= the key searched for; it
\* fails with -ENODATA when every key of the node is greater, and when the
\* node is a leaf, QUERY_EXACT is set and no key is equal
C15_SingleQueryResult ==
    pc = "node_query_done" =>
       IF \/ NotAfter = {}
          \/ /\ node_is_leaf(query.node)
             /\ "QUERY_EXACT" \in query.flags
             /\ \A i \in NotAfter :
                   keycmp(KeyAt(query.node.block_nr, i), query.key) # 0
       THEN lookup.err = 0 - ENODATA
       ELSE /\ lookup.err = 0
            /\ query.index \in NotAfter
            /\ \A i \in NotAfter : i <= query.index

\* on a root of three records the query without QUERY_EXACT ends at the
\* second, whose key is less than the key searched for
C15_EndsAtGreatestNotAfter ==
    /\ pc = "node_query_done"
    /\ ~node_is_leaf(query.node)
    /\ query.node.records = 3
    /\ "QUERY_EXACT" \notin query.flags
    /\ lookup.err = 0
    /\ query.index = 1
    /\ keycmp(KeyAt(query.node.block_nr, 1), query.key) < 0

\* the records of the leaves whose (id, type) is that of the key searched
\* for
Matching ==
    {rec \in UNION {{[block_nr |-> b, index |-> i]
                       : i \in 0..(disk[b].btn_nkeys - 1)}
                      : b \in {c \in DOMAIN disk \ {QueryOmapBlock} :
                                 node_is_leaf([flags |-> disk[c].btn_flags])}} :
        /\ KeyAt(rec.block_nr, rec.index).id = query.key.id
        /\ KeyAt(rec.block_nr, rec.index).type = query.key.type}

\* the records returned so far are records of the (id, type) searched
\* for, none of them twice, and once a call has failed with -ENODATA every
\* such record was returned
ReturnsMatches ==
    /\ \A i \in DOMAIN lookup.records : lookup.records[i] \in Matching
    /\ \A i, j \in DOMAIN lookup.records :
          lookup.records[i] = lookup.records[j] => i = j
    /\ pc = "query_done" =>
          {lookup.records[i] : i \in DOMAIN lookup.records} = Matching

\* C14 as stated: the calls of btree_query() on one multiple query return
\* every record whose (id, type) is that of the key searched for exactly
\* once and no other record, and then fail; none is skipped or returned
\* twice when the query goes back to a parent node
C14_MultipleQueryReturnsMatches ==
    pc \in {"query_next", "query_done"} => ReturnsMatches

\* C14: the calls of btree_query() on one multiple query that has
\* QUERY_EXACT set return every record whose (id, type) is that of the key
\* searched for exactly once and no other record, and then fail; none is
\* skipped or returned twice when the query goes back to a parent node
C14_ExactMultipleQueryReturnsMatches ==
    (pc \in {"query_next", "query_done"} /\ "QUERY_EXACT" \in query.flags)
       => ReturnsMatches

\* three file extents of one file, in two leaves, were returned after the
\* query went back to the root
C14_MatchesAcrossLeaves ==
    /\ pc = "query_done"
    /\ Len(lookup.records) = 3
    /\ lookup.records[1].block_nr # lookup.records[3].block_nr
    /\ query.key.type = APFS_TYPE_FILE_EXTENT
    /\ "QUERY_EXACT" \in query.flags


(***************************************************************************)
(* SpecCatalog: the walk of a catalog of inode and dentry records by       *)
(* parse_subtree(), each leaf record being handed to the handler of its    *)
(* type once its key has been checked against the key before it.  The      *)
(* catalog is one leaf, or a root over two leaves; every value has the     *)
(* size of its struct.  The inode table is not drained.                    *)
(***************************************************************************)
MaxCatRecords == 3

\* sizeof(struct apfs_inode_val) and sizeof(struct apfs_drec_val)
INODE_VAL_SIZE == 92

DREC_VAL_SIZE == 18

InodeRecord(ino, parent_id, mode) ==
    [key |-> [id |-> ino, type |-> APFS_TYPE_INODE, number |-> 0,
              name |-> NoName],
     val |-> [parent_id |-> parent_id, mode |-> mode, nlink |-> 1,
              name |-> <<2>>],
     len |-> INODE_VAL_SIZE]

DentryRecord(parent_ino, file_id, flags) ==
    [key |-> [id |-> parent_ino, type |-> APFS_TYPE_DIR_REC,
              number |-> dentry_hash(<<2>>), name |-> <<2>>],
     val |-> [file_id |-> file_id, flags |-> flags],
     len |-> DREC_VAL_SIZE]

\* the records a catalog of the model is made of: the root directory, inode
\* 16 as a directory and as a regular file, and dentries of the parents 1,
\* 2 and 16
CatRecordPool ==
    {InodeRecord(APFS_ROOT_DIR_INO_NUM, APFS_ROOT_DIR_PARENT, S_IFDIR),
     InodeRecord(APFS_MIN_USER_INO_NUM, APFS_ROOT_DIR_INO_NUM, S_IFDIR),
     InodeRecord(APFS_MIN_USER_INO_NUM, APFS_ROOT_DIR_INO_NUM, S_IFREG),
     DentryRecord(APFS_ROOT_DIR_PARENT, APFS_ROOT_DIR_INO_NUM, 4),
     DentryRecord(APFS_ROOT_DIR_INO_NUM, APFS_MIN_USER_INO_NUM, 4),
     DentryRecord(APFS_ROOT_DIR_INO_NUM, APFS_MIN_USER_INO_NUM, 8),
     DentryRecord(APFS_MIN_USER_INO_NUM, APFS_MIN_USER_INO_NUM + 1, 8)}

\* a leaf of the catalog in block b
CatalogLeaf(b, recs) ==
    MkNode(b, CatOid(b), FlagsOf(b, TRUE, FALSE),
           [i \in 1..Len(recs) |->
              [k_off |-> 32 * (i - 1), k_len |-> CatKeySize(recs[i].key),
               v_off |-> 128 * i, v_len |-> recs[i].len,
               key |-> recs[i].key, val |-> recs[i].val]])

\* a root over the leaves whose first keys are keys
CatalogRoot(keys) ==
    MkNode(RootBlock, CatOid(RootBlock), FlagsOf(RootBlock, FALSE, FALSE),
           [i \in 1..Len(keys) |->
              [k_off |-> 32 * (i - 1), k_len |-> CatKeySize(keys[i]),
               v_off |-> 16 * i, v_len |-> 8,
               key |-> keys[i], val |-> CatOid(RootBlock + i)]])

\* the catalog of the records recs: one leaf when cut is 0, else a root
\* over a leaf of the first cut records and a leaf of the others
CatalogImage(recs, cut) ==
    IF cut = 0
    THEN (RootBlock :> CatalogLeaf(RootBlock, recs))
         @@ (QueryOmapBlock :> QueryOmapRoot)
    ELSE (RootBlock :> CatalogRoot(<<recs[1].key, recs[cut + 1].key>>))
         @@ (RootBlock + 1 :> CatalogLeaf(RootBlock + 1, SubSeq(recs, 1, cut)))
         @@ (RootBlock + 2 :>
               CatalogLeaf(RootBlock + 2, SubSeq(recs, cut + 1, Len(recs))))
         @@ (QueryOmapBlock :> QueryOmapRoot)

\* the catalogs of up to max records; the records come in any order:
\* parse_subtree() is what checks it
CatalogImages(max) ==
    UNION {{CatalogImage(recs, cut) : cut \in 0..(n - 1),
                                      recs \in [1..n -> CatRecordPool]}
             : n \in 1..max}

InitCatalog ==
    /\ disk \in CatalogImages(MaxCatRecords)
    /\ rpt = ""
    /\ pc = "cat_start"
    /\ stack = <<>> /\ last_key = NoKey /\ stats = NoStats
    /\ omap_root = QueryOmapRootNode
    /\ cat_last = NoKey /\ inode_table = <<>> /\ dentries = {}
    /\ dstream = NoDstream /\ extent_table = <<>> /\ tally = NoTally
    /\ vsb = NoVolume
    /\ IdleNode /\ IdleOmap /\ IdleBmap /\ IdleCsum /\ IdleRun

catalogFrame ==
    <<disk, omap_root, dstream, extent_table, tally, vsb, nodeVars, omapVars,
      bmapVars, csumVars, runVars>>

\* the handler of the type of the key is called with the record
parse_cat_record(table, key, val) ==
    IF key.type = APFS_TYPE_INODE
    THEN parse_inode_record(table, key.id, val)
    ELSE IF key.type = APFS_TYPE_DIR_REC
    THEN parse_dentry_record(table, key.id, val)
    ELSE [rpt |-> "", table |-> table]

\* parse_cat_btree() up to the call of parse_subtree()
CatalogWalkStart ==
    /\ pc = "cat_start"
    /\ \E r \in {Then(omap_lookup_block(omap_root, CatOid(RootBlock), FALSE),
                      LAMBDA b : read_node(b.val, FALSE))} :
             IF Reported(r)
             THEN /\ rpt' = r.rpt
                  /\ pc' = "exit"
                  /\ UNCHANGED <<stack, stats>>
             ELSE /\ stack' = <<[node |-> r.node, i |-> 0]>>
                  /\ stats' = CountNode(stats, r.node)
                  /\ pc' = "cat_walking"
                  /\ UNCHANGED rpt
    /\ UNCHANGED <<last_key, cat_last, inode_table, dentries, catalogFrame>>

\* one record of the node on top of the recursion: its key is checked, and
\* then a leaf record goes to its handler and a nonleaf record calls
\* parse_subtree() on the child
ParseCatRecord ==
    /\ pc = "cat_walking"
    /\ U32Less(Top.i, Top.node.records)
    /\ \E r \in {parse_record(Top.node, Top.i, last_key, omap_root, FALSE)} :
          IF Reported(r)
          THEN /\ rpt' = r.rpt
               /\ pc' = "exit"
               /\ UNCHANGED <<stack, last_key, stats, cat_last, inode_table,
                              dentries>>
          ELSE IF ~r.leaf
          THEN /\ last_key' = r.key
               /\ stack' = Append(stack, [node |-> r.child, i |-> 0])
               /\ stats' = CountNode(stats, r.child)
               /\ UNCHANGED <<rpt, pc, cat_last, inode_table, dentries>>
          ELSE \E h \in {Then(node_locate_data(Top.node, Top.i), LAMBDA d :
                             parse_cat_record(inode_table, r.key, d.val))} :
               \E val \in {TocEntry(Top.node, Top.i).val} :
               /\ last_key' = r.key
               /\ rpt' = h.rpt
               /\ pc' = IF Reported(h) THEN "exit" ELSE pc
               /\ stack' = IF Reported(h) THEN stack
                           ELSE [stack EXCEPT ![Len(stack)].i = @ + 1]
               /\ cat_last' = IF Reported(h) THEN cat_last ELSE r.key
               /\ inode_table' = IF Reported(h) THEN inode_table ELSE h.table
               /\ dentries' =
                    IF Reported(h) \/ r.key.type # APFS_TYPE_DIR_REC
                    THEN dentries
                    ELSE dentries \cup {[parent |-> r.key.id,
                                         name |-> r.key.name,
                                         file_id |-> val.file_id]}
               /\ UNCHANGED stats
    /\ UNCHANGED catalogFrame

\* the loop of the node on top of the recursion is over: parse_subtree()
\* returns to the loop of the parent, or to parse_cat_btree()
CatalogReturn ==
    /\ pc = "cat_walking"
    /\ ~U32Less(Top.i, Top.node.records)
    /\ IF Len(stack) = 1
       THEN /\ pc' = "cat_done"
            /\ UNCHANGED stack
       ELSE /\ stack' = [SubSeq(stack, 1, Len(stack) - 1)
                           EXCEPT ![Len(stack) - 1].i = @ + 1]
            /\ UNCHANGED pc
    /\ UNCHANGED <<rpt, last_key, stats, cat_last, inode_table, dentries,
                   catalogFrame>>

NextCatalog == CatalogWalkStart \/ ParseCatRecord \/ CatalogReturn

SpecCatalog == InitCatalog /\ [][NextCatalog]_vars


\* the leaves of the catalog, in the order of the walk
CatalogLeaves ==
    IF node_is_leaf([flags |-> disk[RootBlock].btn_flags]) THEN <<RootBlock>>
    ELSE [i \in 1..Len(disk[RootBlock].toc) |->
            CHOOSE b \in DOMAIN disk : CatOid(b) = disk[RootBlock].toc[i].val]

\* the records of the first n leaves, in the order of the walk
RECURSIVE RecordsOfLeaves(_)
RecordsOfLeaves(n) ==
    IF n = 0 THEN <<>>
    ELSE RecordsOfLeaves(n - 1) \o disk[CatalogLeaves[n]].toc

CatalogRecords == RecordsOfLeaves(Len(CatalogLeaves))

\* the keys of the leaf records never descend
CatalogAscends ==
    \A i \in 1..Len(CatalogRecords), j \in 1..Len(CatalogRecords) :
        i < j => keycmp(CatalogRecords[i].key, CatalogRecords[j].key) <= 0

\* how many leaf records the walk has handled without a report
Handled ==
    IF stack = <<>> THEN 0
    ELSE IF Len(CatalogLeaves) = 1 /\ CatalogLeaves[1] = RootBlock
    THEN stack[1].i
    ELSE Len(RecordsOfLeaves(stack[1].i))
         + (IF Len(stack) = 2 THEN stack[2].i ELSE 0)

\* what parse_dentry_record() can report
DentryReports ==
    {"Dentry record: parent inode missing",
     "Dentry record: parent inode not directory.",
     "Dentry record: reserved flags in use.",
     "Dentry record: file mode doesn't match dentry type.",
     "Dentry record: invalid dentry type."}

\* record j of the catalog is a dentry of a parent other than the parent of
\* the root directory, and parse_dentry_record() has been called with it
DentryHandled(j) ==
    /\ CatalogRecords[j].key.type = APFS_TYPE_DIR_REC
    /\ CatalogRecords[j].key.id # APFS_ROOT_DIR_PARENT
    /\ \/ j <= Handled
       \/ j = Handled + 1 /\ pc = "exit" /\ rpt \in DentryReports

\* record k of the catalog is the inode record of ino
InodeRecordOf(k, ino) ==
    /\ CatalogRecords[k].key.type = APFS_TYPE_INODE
    /\ CatalogRecords[k].key.id = ino

\* C20: in the walk of a catalog whose keys ascend, when a dentry record of
\* the parent P (other than the parent of the root directory) is handled,
\* every inode record of P in the catalog comes before it and so has been
\* handled; and the handling of the dentry ends with the report of a
\* missing parent exactly when the catalog has no inode record of P
C20_ParentHandledBeforeDentry ==
    (stack # <<>> /\ CatalogAscends) =>
        \A j \in 1..Len(CatalogRecords) :
            DentryHandled(j) =>
                /\ \A k \in 1..Len(CatalogRecords) :
                      InodeRecordOf(k, CatalogRecords[j].key.id)
                          => /\ k < j
                             /\ k <= Handled
                             /\ inode_table[CatalogRecords[j].key.id].i_seen
                /\ (j = Handled + 1
                    /\ rpt = "Dentry record: parent inode missing")
                   <=> ~\E k \in 1..Len(CatalogRecords) :
                          InodeRecordOf(k, CatalogRecords[j].key.id)

\* a catalog of two leaves whose keys ascend: the dentry of a parent is in
\* the second leaf, the inode record of the parent in the first, and both
\* have been handled
C20_DentryAfterParentAcrossLeaves ==
    /\ pc = "cat_done"
    /\ CatalogAscends
    /\ Len(CatalogLeaves) = 2
    /\ \E j \in 1..Len(CatalogRecords) :
          /\ DentryHandled(j)
          /\ j > Len(disk[CatalogLeaves[1]].toc)
          /\ \E k \in 1..Len(disk[CatalogLeaves[1]].toc) :
                InodeRecordOf(k, CatalogRecords[j].key.id)

(***************************************************************************)
(* The drain of the audit tables of a volume (check_volume_super() in      *)
(* super.c, with free_inode_table() of inode.c and free_dstream_table()    *)
(* and free_extent_table() of extents.c).  The catalog walk is over: the   *)
(* tables hold what it left.  v_allocated holds the names of the table     *)
(* pointers of the vsb that are not NULL.  The volume is not a snapshot,   *)
(* as alloc_volume_super(false) is the only call there is.  The omap,      *)
(* dirstat and crypto tables are empty and left out, and of the checks     *)
(* that follow the drain only that of the snapshot count is kept: the      *)
(* other counts of the volume superblock are right.  free_htable() is      *)
(* not part of these sources: a table is drained in any order of its       *)
(* entries.                                                                *)
(***************************************************************************)
VolumeTables ==
    {"v_snap_table", "v_inode_table", "v_dstream_table", "v_cnid_table",
     "v_extent_table"}

\* a drain that frees the cnids ahead of the data streams
drain_order_cnids_first ==
    <<"v_snap_table", "v_inode_table", "v_cnid_table", "v_dstream_table",
      "v_extent_table">>

\* the order in which check_volume_super() drains the tables
drain_order ==
    <<"v_snap_table", "v_inode_table", "v_dstream_table", "v_cnid_table",
      "v_extent_table">>

\* where check_volume_super() stands once the drain of a table has ended
\* with the result r
after_drain(table, r) ==
    IF Reported(r) THEN "reported"
    ELSE Let(CHOOSE i \in 1..Len(drain_order) : drain_order[i] = table,
             LAMBDA i : IF i = Len(drain_order) THEN "volume_checked"
                        ELSE drain_order[i + 1])

\* the pointer to the table is set to NULL
table_freed(v, table) == [v EXCEPT !.v_allocated = @ \ {table}]

\* every order of the entries of a table
Orders(ids) ==
    {order \in [1..Cardinality(ids) -> ids] :
        \A i, j \in 1..Cardinality(ids) : order[i] = order[j] => i = j}

\* the dstream table once get_dstream() has found or made the entry of id
get_dstream_entry(id, table) ==
    IF id \in DOMAIN table THEN table ELSE (id :> NewDstream(id)) @@ table

\* the cnid table once get_listed_cnid() has found or made the entry of id
get_listed_cnid(id, table) ==
    IF id \in DOMAIN table THEN table ELSE (id :> {}) @@ table

cnid_set_state_flag(id, table, flag) ==
    [table EXCEPT ![id] = @ \cup {flag}]

\* check_inode_stats() and free_inode_names() for one entry of the table
free_inode(v, inode) ==
    IF "v_dstream_table" \notin v.v_allocated
    THEN Report("check_inode_stats: Assertion `vsb->v_dstream_table' failed.")
    ELSE Let(get_dstream_entry(inode.i_private_id, v.v_dstream_table),
             LAMBDA t :
         Then(check_inode_stats(inode, t[inode.i_private_id]), LAMBDA a :
         Then(free_inode_names(inode), LAMBDA b :
              [rpt |-> "", vsb |-> [v EXCEPT !.v_dstream_table = t]])))

\* free_inode_table() over the entries order[i], order[i + 1], ...
RECURSIVE drain_inodes(_, _, _, _)
drain_inodes(v, table, order, i) ==
    IF i > Len(order) THEN [rpt |-> "", vsb |-> v]
    ELSE Then(free_inode(v, table[order[i]]), LAMBDA r :
              drain_inodes(r.vsb, table, order, i + 1))

\* free_dstream() for one entry of the table: the cnid is flagged, then the
\* extents are counted and the stream is checked
free_dstream_entry(v, extents, ds) ==
    IF "v_cnid_table" \notin v.v_allocated
    THEN Report("free_dstream: Assertion `vsb->v_cnid_table' failed.")
    ELSE Let([v EXCEPT !.v_cnid_table =
                cnid_set_state_flag(ds.d_id, get_listed_cnid(ds.d_id, @),
                                    "CNID_IN_DSTREAM")], LAMBDA w :
         IF ~ds.d_inline /\ ds.d_extents # <<>>
            /\ "v_extent_table" \notin v.v_allocated
         THEN Report("Segmentation fault")
         ELSE Then(free_dstream(ds, extents), LAMBDA r :
                   [rpt |-> "", vsb |-> w, table |-> r.table]))

\* free_dstream_table() over the entries order[i], order[i + 1], ...
RECURSIVE drain_dstreams(_, _, _, _)
drain_dstreams(v, extents, order, i) ==
    IF i > Len(order) THEN [rpt |-> "", vsb |-> v, table |-> extents]
    ELSE Then(free_dstream_entry(v, extents, v.v_dstream_table[order[i]]),
              LAMBDA r : drain_dstreams(r.vsb, r.table, order, i + 1))

\* calculate_total_refcnt(): the count of the record of the extent
\* reference tree that holds the first block, which is the record the
\* extent was made from
calculate_total_refcnt(extent) ==
    IF U64Add(extent.e_bno, extent.e_blocks) < extent.e_bno
    THEN Report("Extent record: physical address is too big.")
    ELSE [rpt |-> "", e_total_refcnt |-> extent.e_refcnt]

\* free_extent() for one entry of the table
free_extent(v, g, main, tier2, extent) ==
    Then(IF extent.e_update
         THEN [rpt |-> "", bitmap |-> main, tier2 |-> FALSE, vsb |-> v]
         ELSE Then(container_bmap_mark_as_used(g, main, tier2, extent.e_bno,
                                               extent.e_blocks), LAMBDA m :
                   [rpt |-> "", bitmap |-> m.bitmap, tier2 |-> m.tier2,
                    vsb |-> [v EXCEPT !.v_block_count =
                               @ + extent.e_blocks]]), LAMBDA m :
    Then(calculate_total_refcnt(extent), LAMBDA c :
         IF c.e_total_refcnt # extent.e_references
         THEN Report("Physical extent record: bad reference count.")
         ELSE m))

\* free_extent_table() over the entries order[i], order[i + 1], ...
RECURSIVE drain_extents(_, _, _, _, _, _, _)
drain_extents(v, g, main, tier2, table, order, i) ==
    IF i > Len(order)
    THEN [rpt |-> "", vsb |-> v, main |-> main, tier2 |-> tier2]
    ELSE Then(free_extent(v, g, main, tier2, table[order[i]]), LAMBDA r :
              drain_extents(r.vsb, g,
                            IF r.tier2 THEN main ELSE r.bitmap,
                            IF r.tier2 THEN r.bitmap ELSE tier2,
                            table, order, i + 1))

\* the ids of the data streams and of the inodes of the volume
VolumeIds == APFS_MIN_USER_INO_NUM..(v_next_obj_id - 1)

\* the owners the data streams have for the extent reference tree
OwnerSamples == {APFS_MIN_USER_INO_NUM, APFS_MIN_USER_INO_NUM + 1}

\* the first block and the length of the one physical extent
VolumeExtent == [e_bno |-> 4, e_blocks |-> 2]

\* a data stream as the catalog walk leaves it: referred to once, with the
\* extents paddrs, all of them of the size of VolumeExtent
WalkedDstream(id, owner, type, paddrs) ==
    [NewDstream(id) EXCEPT
        !.d_owner = owner, !.d_obj_type = type,
        !.d_xattr = (type = APFS_TYPE_XATTR),
        !.d_seen = (type = APFS_TYPE_INODE),
        !.d_refcnt = IF type = APFS_TYPE_INODE THEN 1 ELSE 0,
        !.d_references = 1,
        !.d_extents = paddrs,
        !.d_size = Len(paddrs) * VolumeExtent.e_blocks * s_blocksize,
        !.d_alloced_size = Len(paddrs) * VolumeExtent.e_blocks * s_blocksize,
        !.d_bytes = Len(paddrs) * VolumeExtent.e_blocks * s_blocksize]

\* the dstream tables the walk can leave over the ids: each id has no data
\* stream, or one
DstreamTables(all) ==
    UNION {{t \in [ids -> UNION {{WalkedDstream(id, owner, type, paddrs) :
                                     owner \in OwnerSamples,
                                     type \in {APFS_TYPE_INODE,
                                               APFS_TYPE_XATTR},
                                     paddrs \in {<<>>,
                                                 <<VolumeExtent.e_bno>>}} :
                                  id \in ids}] :
              \A id \in ids : t[id].d_id = id} : ids \in SUBSET all}

\* an inode as the catalog walk leaves it: a regular file with one name,
\* and with the sizes of the data stream ds
WalkedInode(ino, ds) ==
    [i_private_id |-> ino] @@
    [NewInode(ino) EXCEPT
        !.i_seen = TRUE, !.i_mode = S_IFREG, !.i_nlink = 1,
        !.i_link_count = 1,
        !.i_name = CHOOSE n \in NameSamples : TRUE,
        !.i_first_name = CHOOSE n \in NameSamples : TRUE,
        !.i_size = ds.d_size, !.i_alloced_size = ds.d_size]

\* the inode tables the walk can leave next to the dstream table
InodeTables(dstreams) ==
    {[ino \in inos |->
         WalkedInode(ino, get_dstream_entry(ino, dstreams)[ino])] :
       inos \in SUBSET OwnerSamples}

\* the extent tables the walk can leave: the physical extent record of
\* VolumeExtent with the reference count refcnt
ExtentTables ==
    {(VolumeExtent.e_bno :>
         (NewExtent(VolumeExtent.e_bno) @@
          [e_blocks |-> VolumeExtent.e_blocks, e_refcnt |-> refcnt,
           e_update |-> FALSE])) : refcnt \in 1..MaxRefs}

\* the snapshot tables the walk can leave
SnapTables ==
    {<<>>, (1 :> [sn_meta_seen |-> TRUE, sn_name_seen |-> TRUE,
                  sn_meta_name |-> CHOOSE n \in NameSamples : TRUE])}

\* the main device holds every block below the tier 2 addresses
VolumeDevice ==
    [s_max_main_blkcnt |-> Tier2Blkno, s_max_tier2_blkcnt |-> 0,
     s_block_count |-> Tier2Blkno, sm_ip_base |-> 1,
     sm_ip_block_count |-> BlocksPerChunk, sm_chunk_count |-> 0]

InitVolume ==
    /\ \E dstreams \in DstreamTables(VolumeIds), snaps \in SnapTables,
          num_snapshots \in 0..1 :
          /\ vsb = [v_in_snapshot |-> FALSE, v_allocated |-> VolumeTables,
                    v_snap_table |-> snaps, v_dstream_table |-> dstreams,
                    v_cnid_table |-> <<>>, v_block_count |-> 0,
                    v_snap_count |-> Cardinality(DOMAIN snaps),
                    apfs_num_snapshots |-> num_snapshots]
          /\ inode_table \in InodeTables(dstreams)
    /\ extent_table \in ExtentTables
    /\ tally = NoTally
    /\ cat_last = NoKey
    /\ dentries = {}
    /\ dstream = NoDstream
    /\ sm = VolumeDevice
    /\ s_main_bitmap = {} /\ s_tier2_bitmap = {} /\ s_ip_bitmap = {}
    /\ sm_dev = NoDev /\ call = NoCall /\ param = NoParam
    /\ disk = <<>>
    /\ rpt = ""
    /\ pc = drain_order[1]
    /\ IdleNode /\ IdleWalk /\ IdleOmap /\ IdleCsum /\ IdleRun

volumeFrame ==
    <<disk, nodeVars, walkVars, omapVars, csumVars, runVars, cat_last,
      dentries, dstream, s_ip_bitmap, sm, sm_dev, call, param>>

\* the entries of a table, lowest id first
Ascending(ids) ==
    CHOOSE order \in Orders(ids) :
        \A i, j \in 1..Cardinality(ids) : i < j => order[i] < order[j]

\* free_snap_table(vsb->v_snap_table); vsb->v_snap_table = NULL;
DrainSnapTable ==
    /\ pc = "v_snap_table"
    /\ vsb' = table_freed([vsb EXCEPT !.v_snap_table = <<>>], "v_snap_table")
    /\ pc' = after_drain("v_snap_table", [rpt |-> ""])
    /\ UNCHANGED <<rpt, inode_table, extent_table, tally, s_main_bitmap,
                   s_tier2_bitmap, volumeFrame>>

\* free_inode_table(vsb->v_inode_table); vsb->v_inode_table = NULL;
DrainInodeTable ==
    /\ pc = "v_inode_table"
    /\ \E r \in {drain_inodes(vsb, inode_table,
                              Ascending(DOMAIN inode_table), 1)} :
          /\ rpt' = r.rpt
          /\ pc' = after_drain("v_inode_table", r)
          /\ IF Reported(r) THEN UNCHANGED <<vsb, inode_table>>
             ELSE /\ vsb' = table_freed(r.vsb, "v_inode_table")
                  /\ inode_table' = <<>>
    /\ UNCHANGED <<extent_table, tally, s_main_bitmap, s_tier2_bitmap,
                   volumeFrame>>

\* the owners of the data streams of the table that hold the extent bno
owners_of(table, bno) ==
    {table[id].d_owner :
        id \in {i \in DOMAIN table :
                   \E k \in 1..Len(table[i].d_extents) :
                       table[i].d_extents[k] = bno}}

\* free_dstream_table(vsb->v_dstream_table); vsb->v_dstream_table = NULL;
\* tally keeps the owners that each extent had in the table
DrainDstreamTable ==
    /\ pc = "v_dstream_table"
    /\ \E order \in Orders(DOMAIN vsb.v_dstream_table) :
       \E r \in {drain_dstreams(vsb, extent_table, order, 1)} :
          /\ rpt' = r.rpt
          /\ pc' = after_drain("v_dstream_table", r)
          /\ IF Reported(r) THEN UNCHANGED <<vsb, extent_table, tally>>
             ELSE /\ vsb' = table_freed(
                               [r.vsb EXCEPT !.v_dstream_table = <<>>],
                               "v_dstream_table")
                  /\ extent_table' = r.table
                  /\ tally' = [owners |->
                                 [bno \in DOMAIN r.table |->
                                    owners_of(vsb.v_dstream_table, bno)]]
                              @@ tally
    /\ UNCHANGED <<inode_table, s_main_bitmap, s_tier2_bitmap, volumeFrame>>

\* free_cnid_table(vsb->v_cnid_table); vsb->v_cnid_table = NULL;
DrainCnidTable ==
    /\ pc = "v_cnid_table"
    /\ vsb' = table_freed([vsb EXCEPT !.v_cnid_table = <<>>], "v_cnid_table")
    /\ pc' = after_drain("v_cnid_table", [rpt |-> ""])
    /\ UNCHANGED <<rpt, inode_table, extent_table, tally, s_main_bitmap,
                   s_tier2_bitmap, volumeFrame>>

\* free_extent_table(vsb->v_extent_table); vsb->v_extent_table = NULL;
DrainExtentTable ==
    /\ pc = "v_extent_table"
    /\ \E order \in Orders(DOMAIN extent_table) :
       \E r \in {drain_extents(vsb, sm, s_main_bitmap, s_tier2_bitmap,
                               extent_table, order, 1)} :
          /\ rpt' = r.rpt
          /\ pc' = after_drain("v_extent_table", r)
          /\ IF Reported(r)
             THEN UNCHANGED <<vsb, extent_table, s_main_bitmap,
                              s_tier2_bitmap>>
             ELSE /\ vsb' = table_freed(r.vsb, "v_extent_table")
                  /\ extent_table' = <<>>
                  /\ s_main_bitmap' = r.main
                  /\ s_tier2_bitmap' = r.tier2
    /\ UNCHANGED <<inode_table, tally, volumeFrame>>

\* the count of the snapshots of the volume superblock is compared with
\* the name records met
CheckVolumeCounts ==
    /\ pc = "volume_checked"
    /\ \E r \in {IF vsb.apfs_num_snapshots # vsb.v_snap_count
                  THEN Report("Volume superblock: bad snapshot count.")
                  ELSE [rpt |-> ""]} :
          /\ rpt' = r.rpt
          /\ pc' = IF Reported(r) THEN "reported" ELSE "volume_accepted"
    /\ UNCHANGED <<vsb, inode_table, extent_table, tally, s_main_bitmap,
                   s_tier2_bitmap, volumeFrame>>

NextVolume ==
    \/ DrainSnapTable
    \/ DrainInodeTable
    \/ DrainDstreamTable
    \/ DrainCnidTable
    \/ DrainExtentTable
    \/ CheckVolumeCounts

SpecVolume == InitVolume /\ [][NextVolume]_vars

\* the order of the audit tables that the lifecycle names
LifecycleOrder ==
    <<"v_inode_table", "v_dstream_table", "v_cnid_table", "v_extent_table">>

\* the reports of a drain step that read a table already freed
FreedTableReads ==
    {"check_inode_stats: Assertion `vsb->v_dstream_table' failed.",
     "free_dstream: Assertion `vsb->v_cnid_table' failed.",
     "Segmentation fault"}

\* C21: the audit tables are drained in the order inodes, dstreams, cnids,
\* extents: a table is freed only when every table ahead of it in that
\* order is freed, so that no drain begins before the earlier ones are
\* complete, and no drain step reads a table that was freed
C21_TablesDrainedInOrder ==
    /\ \A i, j \in 1..Len(LifecycleOrder) :
          i < j /\ LifecycleOrder[j] \notin vsb.v_allocated
             => LifecycleOrder[i] \notin vsb.v_allocated
    /\ pc \in VolumeTables
          => /\ pc \in vsb.v_allocated
             /\ \A i, j \in 1..Len(LifecycleOrder) :
                   i < j /\ LifecycleOrder[j] = pc
                      => LifecycleOrder[i] \notin vsb.v_allocated
    /\ rpt \notin FreedTableReads

\* the four tables are freed, after the drain of the data streams of two
\* owners flagged their cnids and counted the extent they share
C21_AllTablesDrained ==
    /\ pc = "volume_checked"
    /\ rpt = ""
    /\ vsb.v_allocated = {}
    /\ Cardinality(tally.owners[VolumeExtent.e_bno]) = 2
    /\ vsb.v_block_count = VolumeExtent.e_blocks

\* C29: once the data streams are drained with no report, the reference
\* count measured for a physical extent is the number of the distinct
\* owners whose data streams hold the extent, whatever the order of the
\* drain
C29_ReferencesCountDistinctOwners ==
    pc \in {"v_cnid_table", "v_extent_table", "volume_checked"}
       /\ rpt = "" /\ "v_extent_table" \in vsb.v_allocated
       => \A bno \in DOMAIN extent_table :
             extent_table[bno].e_references
                = Cardinality(tally.owners[bno])

(***************************************************************************)
(* The records of the extent reference tree (parse_phys_ext_record() in    *)
(* extents.c).  The length of an extent takes the low AddrBits bits of     *)
(* len_and_kind and the kind the four bits above them; owning_obj_id is as *)
(* wide as len_and_kind.  tally keeps the record handed out.               *)
(***************************************************************************)
\* sizeof(struct apfs_phys_ext_val)
PHYS_EXT_VAL_SIZE == 20

APFS_PEXT_KIND_SHIFT == AddrBits

APFS_PEXT_LEN_MASK == 2 ^ APFS_PEXT_KIND_SHIFT - 1

APFS_KIND_NEW == 1

APFS_KIND_UPDATE == 2

\* the owner id of the extents whose owner is gone: every bit set
APFS_OWNING_OBJ_ID_INVALID == 2 ^ (APFS_PEXT_KIND_SHIFT + 4) - 1

\* a parser that lets the reserved ids own an extent
parse_phys_ext_record_any_owner(table, bno, val, len) ==
    Let(val.len_and_kind \div (2 ^ APFS_PEXT_KIND_SHIFT), LAMBDA kind :
    Let(val.len_and_kind % (APFS_PEXT_LEN_MASK + 1), LAMBDA length :
        IF len # PHYS_EXT_VAL_SIZE
        THEN Report("Physical extent record: wrong size of value.")
        ELSE IF kind # APFS_KIND_NEW /\ kind # APFS_KIND_UPDATE
        THEN Report("Physical extent record: invalid kind")
        ELSE IF length = 0
        THEN Report("Physical extent record: has no blocks.")
        ELSE IF val.refcnt = 0
        THEN Report("Physical extent record: should have been deleted.")
        ELSE Let(get_extent(bno, table), LAMBDA t :
                 [rpt |-> "",
                  table |-> [t EXCEPT ![bno] =
                               @ @@ [e_blocks |-> length,
                                     e_refcnt |-> val.refcnt,
                                     e_update |-> (kind = APFS_KIND_UPDATE)]],
                  last |-> U64Sub(U64Add(bno, length), 1)])))

\* the record of the key with the block number bno, whose value of len
\* bytes holds len_and_kind, owning_obj_id and refcnt
parse_phys_ext_record(table, bno, val, len) ==
    Let(val.len_and_kind \div (2 ^ APFS_PEXT_KIND_SHIFT), LAMBDA kind :
    Let(val.len_and_kind % (APFS_PEXT_LEN_MASK + 1), LAMBDA length :
    Let(val.owning_obj_id, LAMBDA owner :
        IF len # PHYS_EXT_VAL_SIZE
        THEN Report("Physical extent record: wrong size of value.")
        ELSE IF kind # APFS_KIND_NEW /\ kind # APFS_KIND_UPDATE
        THEN Report("Physical extent record: invalid kind")
        ELSE IF length = 0
        THEN Report("Physical extent record: has no blocks.")
        ELSE IF owner = APFS_OWNING_OBJ_ID_INVALID
                /\ kind # APFS_KIND_UPDATE
        THEN Report("Physical extent record: invalid owner id for NEW.")
        ELSE IF owner # APFS_OWNING_OBJ_ID_INVALID
                /\ kind # APFS_KIND_NEW
        THEN Report("Physical extent record: valid owner id for UPDATE.")
        ELSE IF owner # APFS_OWNING_OBJ_ID_INVALID
                /\ owner < APFS_MIN_USER_INO_NUM
        THEN Report("Physical extent record: reserved id.")
        ELSE IF owner # APFS_OWNING_OBJ_ID_INVALID
                /\ owner >= v_next_obj_id
        THEN Report("Physical extent record: free id in use.")
        ELSE IF val.refcnt = 0
        THEN Report("Physical extent record: should have been deleted.")
        ELSE Let(get_extent(bno, table), LAMBDA t :
                 [rpt |-> "",
                  table |-> [t EXCEPT ![bno] =
                               @ @@ [e_blocks |-> length,
                                     e_refcnt |-> val.refcnt,
                                     e_update |-> (kind = APFS_KIND_UPDATE)]],
                  last |-> U64Sub(U64Add(bno, length), 1)]))))

PhysExtValSamples ==
    [len_and_kind : 0..(2 ^ (APFS_PEXT_KIND_SHIFT + 4) - 1),
     owning_obj_id : {0, APFS_MIN_USER_INO_NUM - 1, APFS_MIN_USER_INO_NUM,
                      v_next_obj_id - 1, v_next_obj_id,
                      APFS_OWNING_OBJ_ID_INVALID},
     refcnt : 0..MaxRefs]

NoRecord == [bno |-> 0]

InitExtref ==
    /\ extent_table = <<>>
    /\ tally = NoRecord
    /\ vsb = NoVolume
    /\ cat_last = NoKey
    /\ inode_table = <<>>
    /\ dentries = {}
    /\ dstream = NoDstream
    /\ disk = <<>>
    /\ rpt = ""
    /\ pc = "extref_walk"
    /\ IdleNode /\ IdleWalk /\ IdleOmap /\ IdleBmap /\ IdleCsum /\ IdleRun

\* the walk of the extent reference tree hands one record out
ParsePhysExtRecord ==
    /\ pc = "extref_walk"
    /\ \E bno \in {4, 5}, val \in PhysExtValSamples,
          len \in {PHYS_EXT_VAL_SIZE - 4, PHYS_EXT_VAL_SIZE} :
       \E r \in {parse_phys_ext_record(extent_table, bno, val, len)} :
          /\ tally' = [bno |-> bno, val |-> val, len |-> len]
          /\ rpt' = r.rpt
          /\ pc' = IF Reported(r) THEN "reported" ELSE "extref_parsed"
          /\ extent_table' = IF Reported(r) THEN extent_table ELSE r.table
    /\ UNCHANGED <<cat_last, inode_table, dentries, dstream, vsb,
                   otherThanAudit, disk>>

NextExtref == ParsePhysExtRecord

SpecExtref == InitExtref /\ [][NextExtref]_vars

\* the length and the kind that the value of the record handed out holds
PextLength == tally.val.len_and_kind % (2 ^ APFS_PEXT_KIND_SHIFT)

PextKind == tally.val.len_and_kind \div (2 ^ APFS_PEXT_KIND_SHIFT)

\* C26: a physical extent record is accepted only if its length is not
\* zero, its kind is NEW or UPDATE, its reference count is not zero and,
\* when its kind is NEW, its owner is a user inode number or the INVALID id
C26_AcceptedPhysExtIsSound ==
    pc = "extref_parsed"
       => /\ PextLength # 0
          /\ PextKind \in {APFS_KIND_NEW, APFS_KIND_UPDATE}
          /\ tally.val.refcnt # 0
          /\ PextKind = APFS_KIND_NEW
                => \/ tally.val.owning_obj_id >= APFS_MIN_USER_INO_NUM
                   \/ tally.val.owning_obj_id = APFS_OWNING_OBJ_ID_INVALID

\* a NEW record owned by a user inode is accepted and kept in the table
C26_NewRecordOfUserInodeAccepted ==
    /\ pc = "extref_parsed"
    /\ PextKind = APFS_KIND_NEW
    /\ tally.val.owning_obj_id = APFS_MIN_USER_INO_NUM
    /\ extent_table[tally.bno].e_blocks = PextLength
    /\ extent_table[tally.bno].e_refcnt = tally.val.refcnt

(***************************************************************************)
(* The snapshot metadata tree (snapshot.c).  The tree walk hands its       *)
(* records out in the order of their keys: the metadata records by their   *)
(* xid, then the name records, whose keys share one id above every xid, by *)
(* their name.  The values have the size of their struct and the names     *)
(* end with a NUL.  The drain and the checks of check_volume_super()       *)
(* follow the walk; the other tables of the volume are empty.  tally       *)
(* keeps the records handed out.                                           *)
(***************************************************************************)
APFS_TYPE_SNAP_METADATA == 1

APFS_TYPE_SNAP_NAME == 11

APFS_OBJ_PHYSICAL == 1073741824

APFS_OBJECT_TYPE_BTREE == 2

MaxSnapXid == 2

\* the id of the keys of the name records
SnapNameId == MaxSnapXid + 1

\* a struct snapshot as calloc() leaves it
NewSnapshot == [sn_meta_seen |-> FALSE, sn_name_seen |-> FALSE,
                sn_meta_name |-> NoName]

\* the table once get_snapshot() has found or made the entry of xid
get_snapshot(xid, table) ==
    IF xid \in DOMAIN table THEN table ELSE (xid :> NewSnapshot) @@ table

\* the metadata record of the snapshot xid; val holds the name, its length
\* and the type of the extent reference tree
parse_snap_metadata_record(v, xid, val) ==
    IF Len(val.name) + 1 # val.name_len
    THEN Report("Snapshot metadata record: wrong name length.")
    ELSE Let(get_snapshot(xid, v.v_snap_table), LAMBDA t :
         IF t[xid].sn_meta_seen
         THEN Report("Snapshot tree: snap with two metadata records.")
         ELSE IF val.extentref_tree_type
                    # APFS_OBJ_PHYSICAL + APFS_OBJECT_TYPE_BTREE
         THEN Report("Snapshot metadata: wrong type for extentref tree.")
         ELSE [rpt |-> "",
               vsb |-> [v EXCEPT !.v_snap_table =
                          [t EXCEPT ![xid].sn_meta_seen = TRUE,
                                    ![xid].sn_meta_name = val.name]]])

\* the name record with the name of the key and the xid of the value
parse_snap_name_record(v, name, snap_xid) ==
    Let(get_snapshot(snap_xid, v.v_snap_table), LAMBDA t :
        IF t[snap_xid].sn_name_seen
        THEN Report("Snapshot tree: snap with two name records.")
        ELSE IF ~t[snap_xid].sn_meta_seen
                \/ t[snap_xid].sn_meta_name = NoName
        THEN Report("Snapshot tree: missing a metadata record.")
        ELSE IF strcmp(name, t[snap_xid].sn_meta_name) # 0
        THEN Report("Snapshot tree: inconsistent names for snapshot.")
        ELSE [rpt |-> "",
              vsb |-> [v EXCEPT !.v_snap_table =
                         [t EXCEPT ![snap_xid].sn_name_seen = TRUE],
                       !.v_snap_count = @ + 1]])

SnapMetadataSamples ==
    [name : NameSamples, name_len : {2, 3},
     extentref_tree_type : {APFS_OBJ_PHYSICAL + APFS_OBJECT_TYPE_BTREE,
                            APFS_OBJECT_TYPE_BTREE}]

InitSnap ==
    /\ \E num_snapshots \in 0..MaxSnapXid :
          vsb = [v_in_snapshot |-> FALSE, v_allocated |-> VolumeTables,
                 v_snap_table |-> <<>>, v_dstream_table |-> <<>>,
                 v_cnid_table |-> <<>>, v_block_count |-> 0,
                 v_snap_count |-> 0, apfs_num_snapshots |-> num_snapshots]
    /\ inode_table = <<>>
    /\ extent_table = <<>>
    /\ tally = [records |-> <<>>]
    /\ cat_last = NoKey
    /\ dentries = {}
    /\ dstream = NoDstream
    /\ sm = VolumeDevice
    /\ s_main_bitmap = {} /\ s_tier2_bitmap = {} /\ s_ip_bitmap = {}
    /\ sm_dev = NoDev /\ call = NoCall /\ param = NoParam
    /\ disk = <<>>
    /\ rpt = ""
    /\ pc = "snap_walk"
    /\ IdleNode /\ IdleWalk /\ IdleOmap /\ IdleCsum /\ IdleRun

snapFrame ==
    <<disk, nodeVars, walkVars, omapVars, csumVars, runVars, bmapVars,
      inode_table, extent_table, dentries, dstream>>

\* what follows a record of the key, handled with the result r
AfterSnapRecord(key, val, r) ==
    /\ cat_last' = key
    /\ tally' = [tally EXCEPT !.records = Append(@, [key |-> key,
                                                     val |-> val])]
    /\ rpt' = r.rpt
    /\ pc' = IF Reported(r) THEN "reported" ELSE "snap_walk"
    /\ vsb' = IF Reported(r) THEN vsb ELSE r.vsb
    /\ UNCHANGED snapFrame

ParseSnapMetadataRecord ==
    /\ pc = "snap_walk"
    /\ \E xid \in 1..MaxSnapXid, val \in SnapMetadataSamples :
       \E key \in {[id |-> xid, type |-> APFS_TYPE_SNAP_METADATA,
                    number |-> 0, name |-> NoName]} :
          /\ keycmp(cat_last, key) < 0
          /\ AfterSnapRecord(key, val,
                             parse_snap_metadata_record(vsb, xid, val))

ParseSnapNameRecord ==
    /\ pc = "snap_walk"
    /\ \E name \in NameSamples, snap_xid \in 1..MaxSnapXid :
       \E key \in {[id |-> SnapNameId, type |-> APFS_TYPE_SNAP_NAME,
                    number |-> 0, name |-> name]} :
          /\ keycmp(cat_last, key) < 0
          /\ AfterSnapRecord(key, [snap_xid |-> snap_xid],
                             parse_snap_name_record(vsb, name, snap_xid))

\* the walk of the tree is over: check_volume_super() goes on to the drain
SnapTreeWalked ==
    /\ pc = "snap_walk"
    /\ pc' = drain_order[1]
    /\ UNCHANGED <<rpt, vsb, cat_last, tally, snapFrame>>

NextSnap ==
    \/ ParseSnapMetadataRecord
    \/ ParseSnapNameRecord
    \/ SnapTreeWalked
    \/ NextVolume

SpecSnap == InitSnap /\ [][NextSnap]_vars

\* the xids of the records of the type handed out
XidsOfRecords(type) ==
    {IF type = APFS_TYPE_SNAP_NAME THEN tally.records[i].val.snap_xid
     ELSE tally.records[i].key.id :
       i \in {j \in 1..Len(tally.records) :
                 tally.records[j].key.type = type}}

\* C27: in an accepted snapshot metadata tree every snapshot has a metadata
\* record and a name record, and the two carry the same name
C27_SnapshotsHaveBothRecords ==
    pc = "volume_accepted"
       => /\ XidsOfRecords(APFS_TYPE_SNAP_METADATA)
                = XidsOfRecords(APFS_TYPE_SNAP_NAME)
          /\ \A i, j \in 1..Len(tally.records) :
                /\ tally.records[i].key.type = APFS_TYPE_SNAP_METADATA
                /\ tally.records[j].key.type = APFS_TYPE_SNAP_NAME
                /\ tally.records[j].val.snap_xid = tally.records[i].key.id
                => tally.records[i].val.name = tally.records[j].key.name

(***************************************************************************)
(* The records of the free queues (parse_free_queue_record() in            *)
(* spaceman.c).  check_spaceman_free_queues() walks the tree of the        *)
(* internal pool, then that of the main device, then that of the tier 2    *)
(* device, and each record met is handed to parse_free_queue_record().     *)
(* sm_dev holds the struct free_queue of each of the three queues and call *)
(* the last record handed out.                                             *)
(***************************************************************************)
APFS_SFQ_IP == 0

APFS_SFQ_MAIN == 1

APFS_SFQ_TIER2 == 2

\* a struct free_queue as calloc() leaves it
NewFreeQueue == [sfq_count |-> 0, sfq_oldest_xid |-> 0]

\* the length of the extent of a record whose value of len bytes holds val
free_queue_length(len, val) ==
    IF len = 0 THEN [rpt |-> "", length |-> 1]
    ELSE IF len = 8
    THEN (IF val = 0 THEN Report("Free queue record: length is zero.")
          ELSE IF val = 1
          THEN Report("Free queue record: value is unnecessary.")
          ELSE [rpt |-> "", length |-> val])
    ELSE Report("Free queue record: wrong size of value.")

\* the record of the key with the block paddr and the transaction xid, met
\* in the queue sfq with the index sfq_index; s_xid is sb->s_xid and g, ip,
\* main and tier2 are the pool and the bitmaps of sb
parse_free_queue_record(g, s_xid, ip, main, tier2, sfq, sfq_index, paddr, xid, len, val) ==
    Then(free_queue_length(len, val), LAMBDA l :
    Then(range_in_ip(g, paddr, l.length), LAMBDA inside :
        IF sfq_index = APFS_SFQ_IP /\ ~inside.in_ip
        THEN Report("Free queue record: range should be inside the IP.")
        ELSE IF sfq_index # APFS_SFQ_IP /\ inside.in_ip
        THEN Report("Free queue record: range should be outside the IP.")
        ELSE IF xid > s_xid
        THEN Report("Free queue record: bad transaction id.")
        ELSE
        Let([sfq_count |-> U64Add(sfq.sfq_count, l.length),
             sfq_oldest_xid |->
                IF sfq.sfq_oldest_xid = 0 \/ xid < sfq.sfq_oldest_xid
                THEN xid ELSE sfq.sfq_oldest_xid], LAMBDA q :
            IF inside.in_ip
            THEN Then(ip_bmap_mark_as_used(g, ip, paddr, l.length),
                      LAMBDA b : [rpt |-> "", sfq |-> q, length |-> l.length,
                                  ip |-> b.bitmap, main |-> main,
                                  tier2 |-> tier2])
            ELSE Then(container_bmap_mark_as_used(g, main, tier2, paddr,
                                                  l.length),
                      LAMBDA b : [rpt |-> "", sfq |-> q, length |-> l.length,
                                  ip |-> ip,
                                  main |-> IF b.tier2 THEN main
                                           ELSE b.bitmap,
                                  tier2 |-> IF b.tier2 THEN b.bitmap
                                            ELSE tier2]))))

\* the internal pool takes the blocks 1, 2 and 3 of a main device that
\* holds every block below the tier 2 addresses
PoolBase == 1

PoolBlocks == 3

FreeQueueDevices ==
    {[s_max_main_blkcnt |-> Tier2Blkno, s_max_tier2_blkcnt |-> tier2,
      s_block_count |-> Tier2Blkno + tier2, sm_ip_base |-> PoolBase,
      sm_ip_block_count |-> PoolBlocks, sm_chunk_count |-> 0] :
       tier2 \in {0, BlocksPerChunk}}

FqPaddrSamples ==
    {0, PoolBase, PoolBase + PoolBlocks - 1, PoolBase + PoolBlocks,
     Tier2Blkno}

FqLengthSamples == {0, 1, 2, PoolBlocks + 2, AddrSpace - 1}

InitFreeQueue ==
    /\ sm \in FreeQueueDevices
    /\ s_main_bitmap = {} /\ s_tier2_bitmap = {} /\ s_ip_bitmap = {}
    /\ sm_dev = [fq |-> [i \in {APFS_SFQ_IP, APFS_SFQ_MAIN, APFS_SFQ_TIER2}
                           |-> NewFreeQueue]]
    /\ call = NoCall
    /\ param = NoParam
    /\ options = 0 /\ out = <<>> /\ status = Running /\ occurred = <<>>
    /\ sb = [s_xid |-> 1] /\ cp_info = NoInfo
    /\ disk = <<>>
    /\ rpt = ""
    /\ pc = "fq_walk"
    /\ IdleNode /\ IdleWalk /\ IdleOmap /\ IdleCsum /\ IdleAudit

ParseFreeQueueRecord ==
    /\ pc = "fq_walk"
    /\ call.n < MaxCalls
    /\ \E sfq_index \in {APFS_SFQ_IP, APFS_SFQ_MAIN, APFS_SFQ_TIER2},
          paddr \in FqPaddrSamples, xid \in 1..2, len \in {0, 4, 8},
          val \in FqLengthSamples :
       \E r \in {parse_free_queue_record(
                     sm, sb.s_xid, s_ip_bitmap, s_main_bitmap,
                     s_tier2_bitmap, sm_dev.fq[sfq_index], sfq_index,
                     paddr, xid, len, val)} :
          /\ call.n > 0 => call.sfq_index <= sfq_index
          /\ sfq_index = APFS_SFQ_TIER2 => sm.s_max_tier2_blkcnt # 0
          /\ call' = [n |-> call.n + 1, sfq_index |-> sfq_index,
                      paddr |-> paddr,
                      length |-> IF len = 0 THEN 1 ELSE val]
          /\ rpt' = r.rpt
          /\ pc' = IF Reported(r) THEN "exit" ELSE pc
          /\ IF Reported(r)
             THEN UNCHANGED <<sm_dev, s_ip_bitmap, s_main_bitmap,
                              s_tier2_bitmap>>
             ELSE /\ sm_dev' = [sm_dev EXCEPT !.fq[sfq_index] = r.sfq]
                  /\ s_ip_bitmap' = r.ip
                  /\ s_main_bitmap' = r.main
                  /\ s_tier2_bitmap' = r.tier2
    /\ UNCHANGED <<disk, sm, param, options, out, status, occurred, sb,
                   cp_info, nodeVars, walkVars, omapVars, csumVars,
                   auditVars>>

NextFreeQueue == ParseFreeQueueRecord

SpecFreeQueue == InitFreeQueue /\ [][NextFreeQueue]_vars

\* the blocks of the range of the last record, and those of the pool
RangeOfRecord == {U64Add(call.paddr, k) : k \in 0..(call.length - 1)}

PoolOfDevice == {bno \in 0..(AddrSpace - 1) : block_in_ip(sm, bno)}

APFS_SPACEMAN_IP_BM_INDEX_INVALID == 65535

APFS_SPACEMAN_IP_BM_BLOCK_COUNT_MAX == 65534

RingCopies == 2

\* the loop of check_ip_free_next(): a report, or the count of the entries
\* of the list
RECURSIVE ip_free_walk(_, _, _, _, _, _)
ip_free_walk(free_next, curr, next, free_tail, bmap_count, free_count) ==
    IF curr >= bmap_count \/ next >= bmap_count
    THEN Report("Internal pool: free bitmaps are out-of-bounds.")
    ELSE IF free_count + 1 >= bmap_count
    THEN Report("Internal pool: free bitmap list loops.")
    ELSE IF next # free_tail
    THEN ip_free_walk(free_next, next, free_next[next + 1], free_tail,
                      bmap_count, free_count + 1)
    ELSE [rpt |-> "", free_count |-> free_count + 1]

check_ip_free_next(free_next, free_head, free_tail, bmap_count) ==
    Then(ip_free_walk(free_next, free_tail, free_head, free_tail,
                      bmap_count, 0), LAMBDA w :
        IF free_next[free_tail + 1] # APFS_SPACEMAN_IP_BM_INDEX_INVALID
        THEN Report("Free ip bitmaps list: free tail is not used.")
        ELSE [rpt |-> "", used_count |-> bmap_count - w.free_count])

\* the loop of parse_ip_bitmap_list() over the blocks in use from i on
RECURSIVE ip_used_from(_, _, _)
ip_used_from(raw, used_bitmaps, i) ==
    IF i > raw.sm_ip_bm_size_in_blocks THEN [rpt |-> ""]
    ELSE Let(raw.ip_bitmap_offsets[i], LAMBDA bmap_off :
         IF bmap_off >= raw.sm_ip_bm_block_count
         THEN Report("Internal pool: bitmap block is out-of-bounds.")
         ELSE IF raw.free_next[bmap_off + 1]
                    # APFS_SPACEMAN_IP_BM_INDEX_INVALID
         THEN Report("Internal pool: used bitmap marked as free.")
         ELSE IF \E j \in 1..Len(used_bitmaps) : used_bitmaps[j] = bmap_off
         THEN Report("Internal pool: same bitmap used twice.")
         ELSE ip_used_from(raw, Append(used_bitmaps, bmap_off), i + 1))

\* a check of the blocks in use that forgets the tail of the free list
parse_ip_bitmap_list_no_tail(g, main, tier2, raw) ==
    IF raw.sm_ip_bm_block_count > APFS_SPACEMAN_IP_BM_BLOCK_COUNT_MAX
    THEN Report("Internal pool: bitmap list is too long.")
    ELSE IF raw.sm_ip_bm_block_count
               # RingCopies * raw.sm_ip_bm_size_in_blocks
    THEN Report("Space manager: ip doesn't have 16 bitmap copies.")
    ELSE
    Then(check_ip_free_next(raw.free_next, raw.sm_ip_bm_free_head,
                            raw.sm_ip_bm_free_tail,
                            raw.sm_ip_bm_block_count), LAMBDA c :
        IF c.used_count # raw.sm_ip_bm_size_in_blocks
        THEN Report("Internal pool: incorrect count of used blocks.")
        ELSE
        Then(container_bmap_mark_as_used(g, main, tier2, raw.sm_ip_bm_base,
                                         raw.sm_ip_bm_block_count),
             LAMBDA b :
        Then(ip_used_from(raw, <<>>, 1), LAMBDA u :
             [rpt |-> "", bitmap |-> b.bitmap, tier2 |-> b.tier2])))

parse_ip_bitmap_list(g, main, tier2, raw) ==
    IF raw.sm_ip_bm_block_count > APFS_SPACEMAN_IP_BM_BLOCK_COUNT_MAX
    THEN Report("Internal pool: bitmap list is too long.")
    ELSE IF raw.sm_ip_bm_block_count
               # RingCopies * raw.sm_ip_bm_size_in_blocks
    THEN Report("Space manager: ip doesn't have 16 bitmap copies.")
    ELSE
    Then(check_ip_free_next(raw.free_next, raw.sm_ip_bm_free_head,
                            raw.sm_ip_bm_free_tail,
                            raw.sm_ip_bm_block_count), LAMBDA c :
        IF c.used_count # raw.sm_ip_bm_size_in_blocks
        THEN Report("Internal pool: incorrect count of used blocks.")
        ELSE
        Then(container_bmap_mark_as_used(g, main, tier2, raw.sm_ip_bm_base,
                                         raw.sm_ip_bm_block_count),
             LAMBDA b :
        Then(ip_used_from(raw, <<raw.sm_ip_bm_free_tail>>, 1), LAMBDA u :
             [rpt |-> "", bitmap |-> b.bitmap, tier2 |-> b.tier2])))

\* the sizes in blocks of the bitmap of the internal pool
IpBmSizes == {1, 2}

\* a ring that is right: the slots of list are the free list in its order
\* and the slots of inuse hold the bitmap blocks
RightRing(list, inuse) ==
    Let(Len(list) + Len(inuse), LAMBDA ring :
        [sm_ip_bm_base |-> 1,
         sm_ip_bm_block_count |-> ring,
         sm_ip_bm_size_in_blocks |-> Len(inuse),
         sm_ip_bm_free_head |-> list[1],
         sm_ip_bm_free_tail |-> list[Len(list)],
         free_next |->
            [k \in 1..ring |->
               IF \E i \in 1..(Len(list) - 1) : list[i] = k - 1
               THEN list[(CHOOSE i \in 1..(Len(list) - 1) :
                             list[i] = k - 1) + 1]
               ELSE APFS_SPACEMAN_IP_BM_INDEX_INVALID],
         ip_bitmap_offsets |-> inuse])

\* the values a 16-bit field of the ring is given
IndexSamplesOf(raw) ==
    0..raw.sm_ip_bm_block_count \cup {APFS_SPACEMAN_IP_BM_INDEX_INVALID}

\* the ring raw, and the rings that differ from it in one field or in one
\* entry of an array
OneFieldChanged(raw) ==
    {raw}
    \cup {[raw EXCEPT !.free_next[k] = v] :
             k \in 1..Len(raw.free_next), v \in IndexSamplesOf(raw)}
    \cup {[raw EXCEPT !.ip_bitmap_offsets[i] = v] :
             i \in 1..Len(raw.ip_bitmap_offsets), v \in IndexSamplesOf(raw)}
    \cup {[raw EXCEPT !.sm_ip_bm_free_head = v] : v \in IndexSamplesOf(raw)}
    \cup {[raw EXCEPT !.sm_ip_bm_free_tail = v] : v \in IndexSamplesOf(raw)}
    \cup {[raw EXCEPT !.sm_ip_bm_block_count = v] :
             v \in {raw.sm_ip_bm_block_count - 1,
                    APFS_SPACEMAN_IP_BM_BLOCK_COUNT_MAX + 1}}

\* the sizes of the bitmap and the free slots of the rings of copies
\* copies of each bitmap block
RingShapes(copies) ==
    {<<bm, free>> \in IpBmSizes \X SUBSET (0..(copies * 2 - 1)) :
        /\ free \subseteq 0..(copies * bm - 1)
        /\ Cardinality(free) = copies * bm - bm}

\* every ring of one bitmap block in use, right or wrong
SmallRings(copies) ==
    [sm_ip_bm_base : {1}, sm_ip_bm_block_count : {copies},
     sm_ip_bm_size_in_blocks : {1},
     sm_ip_bm_free_head : 0..copies,
     sm_ip_bm_free_tail : 0..copies,
     free_next : [1..copies -> 0..(copies - 1)
                     \cup {APFS_SPACEMAN_IP_BM_INDEX_INVALID}],
     ip_bitmap_offsets : [1..1 -> 0..copies]]

InitIpList ==
    /\ \/ \E shape \in RingShapes(RingCopies) :
          \E list \in Orders(shape[2]),
             inuse \in Orders(0..(RingCopies * shape[1] - 1) \ shape[2]) :
             sm_dev \in OneFieldChanged(RightRing(list, inuse))
       \/ sm_dev \in SmallRings(RingCopies)
    /\ sm = VolumeDevice
    /\ s_main_bitmap = {} /\ s_tier2_bitmap = {} /\ s_ip_bitmap = {}
    /\ call = NoCall
    /\ param = NoParam
    /\ disk = <<>>
    /\ rpt = ""
    /\ pc = "ip_list"
    /\ IdleNode /\ IdleWalk /\ IdleOmap /\ IdleCsum /\ IdleAudit /\ IdleRun

ParseIpBitmapList ==
    /\ pc = "ip_list"
    /\ \E r \in {parse_ip_bitmap_list(sm, s_main_bitmap, s_tier2_bitmap,
                                      sm_dev)} :
          /\ rpt' = r.rpt
          /\ pc' = IF Reported(r) THEN "exit" ELSE "ip_list_parsed"
          /\ s_main_bitmap' = IF ~Reported(r) /\ ~r.tier2 THEN r.bitmap
                              ELSE s_main_bitmap
          /\ s_tier2_bitmap' = IF ~Reported(r) /\ r.tier2 THEN r.bitmap
                               ELSE s_tier2_bitmap
    /\ UNCHANGED <<disk, s_ip_bitmap, sm, sm_dev, call, param,
                   otherThanBmap>>

NextIpList == ParseIpBitmapList

SpecIpList == InitIpList /\ [][NextIpList]_vars

\* the slots met on the way from slot to the tail of the free list, in at
\* most n steps
RECURSIVE SlotsToTail(_, _)
SlotsToTail(slot, n) ==
    IF slot = sm_dev.sm_ip_bm_free_tail \/ n = 0
       \/ slot >= sm_dev.sm_ip_bm_block_count
    THEN {slot}
    ELSE {slot} \cup SlotsToTail(sm_dev.free_next[slot + 1], n - 1)

FreeSlots == SlotsToTail(sm_dev.sm_ip_bm_free_head,
                         sm_dev.sm_ip_bm_block_count)

UsedSlots ==
    {sm_dev.ip_bitmap_offsets[i] :
        i \in 1..Len(sm_dev.ip_bitmap_offsets)}

\* C22: in an accepted ring of the bitmap blocks of the internal pool the
\* slots in use are pairwise distinct, none of them is on the free list,
\* its tail included, and the free list from free_head to free_tail has
\* ring_len - ip_bm_size_in_blocks members: the two sets partition the ring
C22_UsedAndFreeSlotsPartitionRing ==
    pc = "ip_list_parsed"
       => /\ Cardinality(UsedSlots) = sm_dev.sm_ip_bm_size_in_blocks
          /\ Len(sm_dev.ip_bitmap_offsets) = sm_dev.sm_ip_bm_size_in_blocks
          /\ UsedSlots \cap FreeSlots = {}
          /\ sm_dev.sm_ip_bm_free_tail \in FreeSlots
          /\ Cardinality(FreeSlots)
                = sm_dev.sm_ip_bm_block_count
                     - sm_dev.sm_ip_bm_size_in_blocks
          /\ UsedSlots \cup FreeSlots
                = 0..(sm_dev.sm_ip_bm_block_count - 1)

\* a ring of two bitmap blocks in use and a free list of two slots that is
\* not in the order of the slots is accepted
C22_RingOfTwoUsedAccepted ==
    /\ pc = "ip_list_parsed"
    /\ sm_dev.sm_ip_bm_size_in_blocks = 2
    /\ Cardinality(FreeSlots) = 2
    /\ sm_dev.sm_ip_bm_free_head > sm_dev.sm_ip_bm_free_tail
    /\ \A bno \in 1..sm_dev.sm_ip_bm_block_count : bno \in s_main_bitmap

(***************************************************************************)
(* SpecCpointMap: parse_filesystem() on images whose one checkpoint has    *)
(* mapping blocks with mappings: the mappings that are right for a data    *)
(* area, or those with one field of one mapping changed.                   *)
(***************************************************************************)
MaxMaps == 2

\* nx_xp_data_blocks of the images
DataRingBlocks == 2

\* the sizes of the mapped objects, in blocks
MapSizeSamples == 0..2

RECURSIVE BlocksOf(_, _)
\* the blocks of the first n objects
BlocksOf(sizes, n) == IF n = 0 THEN 0 ELSE BlocksOf(sizes, n - 1) + sizes[n]

\* the mappings of objects of these sizes, each with an oid of its own,
\* that follow each other in the data area from index on; the first is the
\* space manager
RightMappings(sizes, index) ==
    [i \in 1..Len(sizes) |->
       [cpm_oid |-> i,
        cpm_paddr |-> DataBase
                      + ((index + BlocksOf(sizes, i - 1)) % DataRingBlocks),
        cpm_size |-> sizes[i] * s_blocksize,
        cpm_type |-> IF i = 1 THEN APFS_OBJECT_TYPE_SPACEMAN
                     ELSE APFS_OBJECT_TYPE_BTREE,
        cpm_pad |-> 0, cpm_fs_oid |-> 0]]

\* one mapping with one field changed; the oid changed is that of the
\* first mapping
ChangedMapping(m) ==
    {[m EXCEPT !.cpm_oid = 1],
     [m EXCEPT !.cpm_paddr = 0], [m EXCEPT !.cpm_paddr = @ + 1],
     [m EXCEPT !.cpm_size = @ + 1], [m EXCEPT !.cpm_pad = 1],
     [m EXCEPT !.cpm_fs_oid = 1]}

MappingSamples(maps) ==
    {maps}
    \cup UNION {{[maps EXCEPT ![i] = c] : c \in ChangedMapping(maps[i])} :
                   i \in 1..Len(maps)}

\* the superblock of the one checkpoint, which has map_blocks mapping
\* blocks, and its data area
CpointSuper(map_blocks, index, len, next) ==
    [Resealed(WithWord(SuperOf(2, 0, map_blocks + 1, 0), 7, map_blocks + 1))
       EXCEPT !.nx_xp_data_blocks = DataRingBlocks,
              !.nx_xp_data_index = index, !.nx_xp_data_len = len,
              !.nx_xp_data_next = next]

\* the image: the mappings are in one block, or the first of them is in a
\* block of its own
CpointImage(maps, split, index, len, next) ==
    LET map_blocks == IF split THEN 2 ELSE 1
        super == CpointSuper(map_blocks, index, len, next)
        first == IF split THEN SubSeq(maps, 1, 1) ELSE maps
    IN  [b \in 0..(DescBase + MaxDescBlocks - 1) |->
           CASE b = APFS_NX_BLOCK_NUM -> super
             [] b = DescBase ->
                  [MapOf(b, 2) EXCEPT !.cpm_map = first,
                      !.cpm_flags = IF split THEN {} ELSE {"LAST"}]
             [] b = DescBase + 1 /\ split ->
                  [MapOf(b, 2) EXCEPT
                      !.cpm_map = SubSeq(maps, 2, Len(maps))]
             [] b = DescBase + map_blocks -> super
             [] OTHER -> Unused]

InitCpointMap ==
    /\ \E n \in 0..MaxMaps :
       \E sizes \in [1..n -> MapSizeSamples],
          index \in 0..(DataRingBlocks - 1), len \in 0..DataRingBlocks,
          off \in {0, 1}, split \in {FALSE, n >= 2} :
       \E maps \in MappingSamples(RightMappings(sizes, index)) :
          disk = CpointImage(maps, split, index, len,
                             (index + BlocksOf(sizes, n) + off)
                             % DataRingBlocks)
    /\ options \in {0, OPT_REPORT_UNKNOWN}
    /\ out = <<>> /\ status = Running /\ occurred = <<>>
    /\ sb = NoSuper /\ cp_info = NoInfo
    /\ rpt = ""
    /\ pc = "fsck_start"
    /\ s_main_bitmap = {} /\ s_tier2_bitmap = {} /\ s_ip_bitmap = {}
    /\ sm = NoDev /\ sm_dev = NoDev /\ call = NoCall
    /\ param = [main_blkcnt |-> SuperDeviceBlocks]
    /\ IdleNode /\ IdleWalk /\ IdleOmap /\ IdleCsum /\ IdleAudit

SpecCpointMap == InitCpointMap /\ [][NextSuper]_vars

\* a turn of the loop of parse_filesystem() was taken and did not report
CheckpointAccepted ==
    /\ pc \in {"fsck_loop", "fsck_done"}
    /\ cp_info.turns > 0

RECURSIVE MappingsFrom(_, _)
\* the mappings of count mapping blocks of the descriptor area, from the
\* block at index on, in the order of the blocks
MappingsFrom(index, count) ==
    IF count = 0 THEN <<>>
    ELSE disk[cp_info.desc_base + index].cpm_map
         \o MappingsFrom((index + 1) % cp_info.desc_blocks, count - 1)

\* the mappings of the checkpoint that the last turn walked: those of the
\* blocks between the one it began at and the superblock it ended on
WalkedMappings ==
    MappingsFrom(cp_info.first,
                 (cp_info.desc_blocks + cp_info.index - 1 - cp_info.first)
                 % cp_info.desc_blocks)

\* the blocks of the object of a mapping
MappedBlocks(m) == m.cpm_size \div s_blocksize

\* where in the data area the object of a mapping is, counted from
\* data_index on and wrapping at the end of the area
WindowOffset(m) ==
    (cp_info.data_blocks + (m.cpm_paddr - cp_info.data_base)
     - cp_info.data_index) % cp_info.data_blocks

\* C24: in an accepted checkpoint no two mappings have the same oid, the
\* first mapping is at data_base + data_index and each other one begins at
\* the block where the object mapped before it ends, wrapping at the end of
\* the data area, and the size of every mapping is a multiple of the block
\* size and its object lies in the data_len blocks from data_index on
C24_AcceptedMappingsAreSound ==
    CheckpointAccepted =>
       LET maps == WalkedMappings
       IN  \A i \in 1..Len(maps) :
              /\ \A j \in 1..Len(maps) :
                    j # i => maps[j].cpm_oid # maps[i].cpm_oid
              /\ maps[i].cpm_paddr >= cp_info.data_base
              /\ maps[i].cpm_paddr < cp_info.data_base + cp_info.data_blocks
              /\ i = 1 => maps[i].cpm_paddr
                          = cp_info.data_base + cp_info.data_index
              /\ i > 1 => maps[i].cpm_paddr
                          = cp_info.data_base
                            + ((maps[i - 1].cpm_paddr - cp_info.data_base
                                + MappedBlocks(maps[i - 1]))
                               % cp_info.data_blocks)
              /\ maps[i].cpm_size % s_blocksize = 0
              /\ WindowOffset(maps[i]) + MappedBlocks(maps[i])
                 <= cp_info.data_len

\* a checkpoint of two mappings is accepted, the second of which is at the
\* start of the data area because the first ends at the end of it
C24_WrappedMappingsAccepted ==
    /\ pc = "fsck_done"
    /\ cp_info.turns > 0
    /\ Len(WalkedMappings) = 2
    /\ MappedBlocks(WalkedMappings[1]) > 0
    /\ WalkedMappings[2].cpm_paddr < WalkedMappings[1].cpm_paddr

(***************************************************************************)
(* SpecRing: parse_filesystem() on descriptor areas of every shape: from   *)
(* nx_xp_desc_index on, RingSpan blocks that are each a mapping block,     *)
(* marked last or not, or a superblock of a checkpoint of one or of two    *)
(* mapping blocks; block zero is a copy of the last superblock among them. *)
(* SpecRingLive is the same walk with the steps of the                     *)
(* checker taken for as long as there is one to take.                      *)
(***************************************************************************)
RingSpan == 4

RingKinds == {"last", "more", "super2", "super3"}

\* a block of the descriptor area of one of the kinds; the superblocks say
\* which checkpoints are valid
RingBlock(kind, b, index, next) ==
    CASE kind = "last" -> MapOf(b, 2)
      [] kind = "more" -> [MapOf(b, 2) EXCEPT !.cpm_flags = {}]
      [] kind = "super2" -> SuperOf(2, index, next, 0)
      [] kind = "super3" ->
           Resealed(WithWord(SuperOf(2, index, next, 0), 7, 3))

RECURSIVE LastSuperKind(_, _)
\* the kind of the last superblock among the first i blocks
LastSuperKind(kinds, i) ==
    IF i = 0 THEN "super2"
    ELSE IF kinds[i] \in {"super2", "super3"} THEN kinds[i]
    ELSE LastSuperKind(kinds, i - 1)

\* block zero is a superblock of the kind zero; the blocks of the area that
\* are not among the RingSpan blocks from index on are unused
RingImage(kinds, index, next, zero) ==
    [b \in 0..(DescBase + MaxDescBlocks - 1) |->
       IF b = APFS_NX_BLOCK_NUM THEN RingBlock(zero, b, index, next)
       ELSE LET k == (MaxDescBlocks + b - DescBase - index) % MaxDescBlocks
            IN  IF k < RingSpan THEN RingBlock(kinds[k + 1], b, index, next)
                ELSE Unused]

InitRing ==
    /\ \E kinds \in [1..RingSpan -> RingKinds],
          index \in {0, MaxDescBlocks - 2}, valid \in 0..RingSpan :
          disk = RingImage(kinds, index, (index + valid) % MaxDescBlocks,
                           LastSuperKind(kinds, RingSpan))
    /\ options = 0
    /\ out = <<>> /\ status = Running /\ occurred = <<>>
    /\ sb = NoSuper /\ cp_info = NoInfo
    /\ rpt = ""
    /\ pc = "fsck_start"
    /\ s_main_bitmap = {} /\ s_tier2_bitmap = {} /\ s_ip_bitmap = {}
    /\ sm = NoDev /\ sm_dev = NoDev /\ call = NoCall
    /\ param = [main_blkcnt |-> SuperDeviceBlocks]
    /\ IdleNode /\ IdleWalk /\ IdleOmap /\ IdleCsum /\ IdleAudit

SpecRing == InitRing /\ [][NextSuper]_vars

\* the checker goes on for as long as it has not exited
SpecRingLive == InitRing /\ [][NextSuper]_vars /\ WF_vars(NextSuper)

\* the block of the descriptor area that is k blocks after the one the
\* last turn began at
RingBlockAfter(k) ==
    disk[cp_info.desc_base + ((cp_info.first + k) % cp_info.desc_blocks)]

\* the blocks between the one that the last turn began at and the
\* superblock that it ended on
WalkedMapBlocks ==
    (cp_info.desc_blocks + cp_info.index - 1 - cp_info.first)
    % cp_info.desc_blocks

\* C25: the checkpoint that a turn of the walk accepted is one or more
\* mapping blocks in the order of the ring, of which the last one and no
\* other is flagged LAST, followed by a block that is a container
\* superblock whose nx_xp_desc_len is the number of the mapping blocks
\* plus 1
C25_CheckpointIsMapsThenSuper ==
    CheckpointAccepted =>
       /\ WalkedMapBlocks >= 1
       /\ \A k \in 0..(WalkedMapBlocks - 1) :
             /\ RingBlockAfter(k).o_type = APFS_OBJECT_TYPE_CHECKPOINT_MAP
             /\ ("LAST" \in RingBlockAfter(k).cpm_flags)
                <=> (k = WalkedMapBlocks - 1)
       /\ RingBlockAfter(WalkedMapBlocks).o_type
          = APFS_OBJECT_TYPE_NX_SUPERBLOCK
       /\ RingBlockAfter(WalkedMapBlocks).nx_magic = APFS_NX_MAGIC
       /\ RingBlockAfter(WalkedMapBlocks).body[7] = WalkedMapBlocks + 1

\* a checkpoint of two mapping blocks and its superblock is accepted
C25_TwoMapBlocksAccepted ==
    /\ pc = "fsck_done"
    /\ cp_info.turns > 0
    /\ WalkedMapBlocks = 2

\* the walk of parse_filesystem() has begun: cp_info is filled in
WalkBegun == pc = "fsck_loop" \/ (SuperRunOver /\ cp_info # NoInfo)

\* C30: the walk over the descriptor area ends; the count of blocks left
\* starts at (desc_next - desc_index) mod desc_blocks, every checkpoint
\* walked takes at least its mapping block and its superblock from it and
\* at most desc_blocks mapping blocks and the superblock, and the image is
\* accepted only with a count that reached zero
C30_RingWalkTerminates ==
    /\ <>SuperRunOver
    /\ []((pc = "fsck_loop" /\ cp_info.turns = 0) =>
            cp_info.valid_blocks
            = (cp_info.desc_blocks + cp_info.desc_next - cp_info.desc_index)
              % cp_info.desc_blocks)
    /\ [][(pc = "fsck_loop" /\ pc' = "fsck_loop") =>
            /\ cp_info'.valid_blocks <= cp_info.valid_blocks - 2
            /\ cp_info'.valid_blocks
               >= cp_info.valid_blocks - cp_info.desc_blocks - 1]_vars
    /\ [](pc = "fsck_done" => cp_info.valid_blocks = 0)

\* the walk ended after the turns of two checkpoints
C30_WalkOfTwoTurnsEnded ==
    /\ SuperRunOver
    /\ cp_info # NoInfo
    /\ cp_info.turns = 2

(***************************************************************************)
(* The chunk-infos that mkapfs writes against the allocation bitmap that   *)
(* it writes, on the devices of SpecFormat.                                *)
(***************************************************************************)
\* the bits set for a chunk in the bitmap blocks of the image: a chunk with
\* no bitmap block has none
BitsOfChunk(ci) ==
    IF ci.ci_bitmap_addr = 0 THEN {} ELSE disk.blocks[ci.ci_bitmap_addr]

\* C28: on every device that mkapfs formats, the free count of every
\* chunk-info it writes is the block count of the chunk minus the bits set
\* for the chunk in the allocation bitmap it writes
C28_FreeCountsMatchBitmap ==
    pc = "apfsck" =>
       \A i \in DOMAIN disk.sm.cib_addr :
          LET cib == disk.blocks[disk.sm.cib_addr[i]]
          IN  \A k \in 1..cib.cib_chunk_info_count :
                 cib.cib_chunk_info[k].ci_free_count
                 = cib.cib_chunk_info[k].ci_block_count
                   - Cardinality(BitsOfChunk(cib.cib_chunk_info[k]))

====
